---------------------------- MODULE Spec2Model ----------------------------
(***************************************************************************)
(* A model of the dz-skills e-learning backend: the JWT auth component,    *)
(* the gin router with AuthMiddleware, the login handler, the relational   *)
(* store with the constraints of the SQL schema, and the entity handlers.  *)
(*                                                                         *)
(* Strings of the program are TLA+ strings.  A JWT is a record of its      *)
(* three segments (header, claims object, signature); a JSON object is a   *)
(* function from its keys.  Time is Unix seconds.                          *)
(***************************************************************************)
EXTENDS Integers, Sequences, FiniteSets, TLC

VARIABLES
    now,        \* the server clock, Unix seconds (time.Now().Unix())
    db,         \* the relational store: one set of rows per table
    seq,        \* the SERIAL sequence of each table with an id column
    issued,     \* the token the client holds: the last one GenerateToken gave it
    last,       \* the last request served and its response
    inflight,   \* the request that has passed its existence checks and has
                \* not yet run its write statement
    served      \* the number of requests the entity controllers have taken

vars == <<now, db, seq, issued, last, inflight, served>>

(***************************************************************************)
(* Bounds of the model.                                                    *)
(***************************************************************************)
MaxSkew == 1        \* seconds the clock may move in single steps
MaxSerial == 2      \* ids a SERIAL column hands out
MaxServed == 4      \* requests the entity controllers take
MaxRequests == 2    \* requests the account handlers and the keyed handlers take

(***************************************************************************)
(* Values requests are built from.                                         *)
(***************************************************************************)
Emails == {"a@x", "b@x"}
Usernames == {"ua", "ub"}
Passwords == {"p1", "p2"}
Roles == {"teacher", "student"}
RoleInputs == Roles \cup {"admin", ""}

(***************************************************************************)
(* bcrypt.  GenerateFromPassword yields a hash value that is not the       *)
(* password; CompareHashAndPassword fails on anything that is not a hash   *)
(* (a stored plaintext is "too short to be a bcrypted password").          *)
(***************************************************************************)
BcryptCost == 14

GenerateFromPassword(password, cost) ==
    [bcrypt |-> TRUE, cost |-> cost, of |-> password]

PlainText(password) ==
    [bcrypt |-> FALSE, cost |-> 0, of |-> password]

CompareHashAndPassword(hash, password) ==
    hash.bcrypt /\ hash.of = password

\* models.HashPassword: the value SetPassword stores
HashPassword(password) == GenerateFromPassword(password, BcryptCost)

\* models.CheckPassword: TRUE when err == nil
CheckPassword(user, providedPassword) ==
    CompareHashAndPassword(user.password, providedPassword)

(***************************************************************************)
(* JWT (github.com/dgrijalva/jwt-go as the auth package uses it).          *)
(***************************************************************************)
jwtKey == "SECRET_KEY"
OtherKey == "attacker-key"

\* time.Now().Add(1000 * time.Hour), in seconds
TokenTTL == 1000 * 3600

\* the JWTClaim struct
JWTClaim(username, email, role, expiresAt) ==
    [Username |-> username, Email |-> email, Role |-> role, ExpiresAt |-> expiresAt]

\* json.Marshal of a JWTClaim: the struct tags name the keys; exp is omitempty
MarshalClaims(c) ==
    LET base == [k \in {"username", "email", "role"} |->
                    CASE k = "username" -> c.Username
                      [] k = "email" -> c.Email
                      [] k = "role" -> c.Role]
    IN  IF c.ExpiresAt = 0 THEN [json |-> base, exp |-> 0, hasExp |-> FALSE]
        ELSE [json |-> base, exp |-> c.ExpiresAt, hasExp |-> TRUE]

\* json.Unmarshal into a JWTClaim: an absent exp leaves ExpiresAt 0
UnmarshalClaims(j) ==
    [Username |-> j.json["username"], Email |-> j.json["email"],
     Role |-> j.json["role"], ExpiresAt |-> IF j.hasExp THEN j.exp ELSE 0]

\* an HMAC over the signing input under a key
HMAC(alg, key, header, claims) ==
    [alg |-> alg, key |-> key, header |-> header, claims |-> claims]

\* jwt.NewWithClaims(method, claims).SignedString(key)
SignedString(alg, claims, key) ==
    LET header == [alg |-> alg, typ |-> "JWT"]
        body == MarshalClaims(claims)
    IN  [segments |-> 3, header |-> header, claims |-> body,
         sig |-> HMAC(alg, key, header, body)]

\* a string that is no JWT (not three decodable segments), and the empty string
Garbage == [segments |-> 1, header |-> [alg |-> "", typ |-> ""],
            claims |-> MarshalClaims(JWTClaim("", "", "", 0)),
            sig |-> HMAC("", "", [alg |-> "", typ |-> ""],
                         MarshalClaims(JWTClaim("", "", "", 0)))]
EmptyString == [Garbage EXCEPT !.segments = 0]

GenerateJWT_SwapsIdentity(email, username, role, t) ==
    SignedString("HS256", JWTClaim(email, username, role, t + TokenTTL), jwtKey)

\* auth.GenerateJWT at clock t
GenerateJWT(email, username, role, t) ==
    LET expirationTime == t + TokenTTL
        claims == JWTClaim(username, email, role, expirationTime)
    IN  SignedString("HS256", claims, jwtKey)

\* An HTTP Authorization header: an optional scheme prefix and the rest
Header(scheme, rest) == [scheme |-> scheme, rest |-> rest]
NoHeader == Header("", EmptyString)
HeaderIsEmpty(h) == h.scheme = "" /\ h.rest.segments = 0

\* jwt.ParseWithClaims(signedToken, &JWTClaim{}, keyfunc) at clock t:
\* parse the segments, look the method up, validate the standard claims
\* (exp only when present), verify the signature under the key keyfunc returns
ParseWithClaims(tok, key, t) ==
    LET claims == UnmarshalClaims(tok.claims)
        wellFormed == tok.segments = 3
        hmacAlg == tok.header.alg \in {"HS256", "HS384", "HS512"}
        claimsValid == claims.ExpiresAt = 0 \/ t <= claims.ExpiresAt
        sigValid == tok.sig = HMAC(tok.header.alg, key, tok.header, tok.claims)
    IN  IF wellFormed /\ hmacAlg /\ claimsValid /\ sigValid
        THEN [err |-> FALSE, claims |-> claims]
        ELSE [err |-> TRUE, claims |-> JWTClaim("", "", "", 0)]

ValidateToken_NoExpiryCheck(h, t) ==
    ParseWithClaims(h.rest, jwtKey, t)

\* auth.ValidateToken at clock t
ValidateToken(h, t) ==
    LET \* "Bearer " is cut off only when something follows it; any other
        \* prefix stays in the string, which then is no JWT
        signedToken ==
            IF h.scheme = "Bearer " /\ h.rest.segments # 0 THEN h.rest
            ELSE IF h.scheme = "" THEN h.rest
            ELSE Garbage
        parsed == ParseWithClaims(signedToken, jwtKey, t)
    IN  IF parsed.err THEN parsed
        ELSE IF parsed.claims.ExpiresAt < t
             THEN [err |-> TRUE, claims |-> JWTClaim("", "", "", 0)]
             ELSE parsed

(***************************************************************************)
(* The store.  Every table of the SQL schema is a set of rows; a row keeps *)
(* its key, its foreign keys and the columns the handlers decide on.       *)
(***************************************************************************)
Tables == {"categories", "sub_cats", "teachers", "students", "courses",
           "student_courses", "cratings", "articles", "videos", "feedbacks",
           "questions", "answers", "exams", "course_quizzes", "exam_quizzes"}

EmptyDB == [t \in Tables |-> {}]
NewSeq == [t \in Tables |-> 1]

\* a user row of teachers / students
User(id, username, email, password) ==
    [id |-> id, username |-> username, email |-> email, password |-> password]

(***************************************************************************)
(* strconv.Atoi / ParseUint on a path parameter: only digit strings parse. *)
(***************************************************************************)
Digits == ("1" :> 1) @@ ("2" :> 2) @@ ("3" :> 3) @@ ("-1" :> (0 - 1))
ParamStrings == {"", "1", "2", "3", "x"}

Atoi(s) ==
    IF s \in DOMAIN Digits THEN [err |-> FALSE, n |-> Digits[s]]
    ELSE [err |-> TRUE, n |-> 0]

\* strconv.ParseUint(s, 10, 32): no sign is accepted
ParseUint(s) ==
    IF s \in DOMAIN Digits /\ Digits[s] >= 0 THEN [err |-> FALSE, n |-> Digits[s]]
    ELSE [err |-> TRUE, n |-> 0]

\* strconv.FormatUint(n, 10)
DecimalDigit == <<"0", "1", "2", "3", "4", "5", "6", "7", "8", "9">>
RECURSIVE FormatUint(_)
FormatUint(n) ==
    IF n < 10 THEN DecimalDigit[n + 1]
    ELSE FormatUint(n \div 10) \o DecimalDigit[(n % 10) + 1]

\* gin's c.Param: the value bound by the route pattern, "" when the pattern
\* declares no parameter of that name
Param(c, name) ==
    IF name \in DOMAIN c.params THEN c.params[name] ELSE ""

(***************************************************************************)
(* The router.                                                             *)
(***************************************************************************)
Lit(s) == [kind |-> "lit", name |-> s]
Par(s) == [kind |-> "param", name |-> s]
Route(line, method, group, path, handler) ==
    [line |-> line, method |-> method, group |-> group, path |-> path,
     handler |-> handler]

\* InitRoutes: every route registration, with the line that makes it
RouteTable == {
    Route(238, "POST", "/answers", <<Lit("CreateAnswer")>>, "AnswerController.CreateAnswer"),
    Route(239, "POST", "/answers", <<Lit("GetAnswer")>>, "AnswerController.GetAnswer"),
    Route(240, "GET", "/answers", <<Lit("GetAllAnswer")>>, "AnswerController.GetAllAnswers"),
    Route(241, "PUT", "/answers", <<Lit("UpdateAnswer")>>, "AnswerController.UpdateAnswer"),
    Route(242, "DELETE", "/answers", <<Lit("DeleteAnswer")>>, "AnswerController.DeleteAnswer"),
    Route(243, "POST", "/answers", <<Lit("GetAnswersByQuestion")>>, "AnswerController.GetAnswersByQuestion"),
    Route(250, "GET", "/articles", <<Lit("all")>>, "ArticleController.GetAllArticles"),
    Route(251, "POST", "/articles", <<Lit("get")>>, "ArticleController.GetArticle"),
    Route(252, "POST", "/articles", <<Lit("GetArticlesByCourse")>>, "ArticleController.GetArticlesByCourse"),
    Route(253, "POST", "/articles", <<Lit("createArticle")>>, "ArticleController.CreateArticle"),
    Route(254, "PUT", "/articles", <<Lit("updateArticle")>>, "ArticleController.UpdateArticle"),
    Route(255, "DELETE", "/articles", <<Lit("DeleteArticle")>>, "ArticleController.DeleteArticle"),
    Route(262, "GET", "/categories", <<Lit("all")>>, "CategoryController.GetAllCategories"),
    Route(263, "POST", "/categories", <<Lit("get")>>, "CategoryController.GetCategory"),
    Route(264, "POST", "/categories", <<Lit("createCategory")>>, "CategoryController.CreateCategory"),
    Route(265, "PUT", "/categories", <<Lit("updateCategory")>>, "CategoryController.UpdateCategory"),
    Route(266, "DELETE", "/categories", <<Lit("DeleteCategory")>>, "CategoryController.DeleteCategory"),
    Route(274, "GET", "/Courses", <<Lit("all")>>, "CourseController.GetAllCourses"),
    Route(275, "POST", "/Courses", <<Lit("createCourse")>>, "CourseController.CreateCourse"),
    Route(276, "PUT", "/Courses", <<Lit("updateCourse")>>, "CourseController.UpdateCourse"),
    Route(277, "DELETE", "/Courses", <<Lit("DeleteCourse")>>, "CourseController.DeleteCourse"),
    Route(285, "GET", "/coursequizzs", <<Lit("all")>>, "CourseQuizzController.GetAllQuizzes"),
    Route(286, "POST", "/coursequizzs", <<Lit("get")>>, "CourseQuizzController.GetQuizz"),
    Route(287, "POST", "/coursequizzs", <<Lit("createCourseQuizz")>>, "CourseQuizzController.CreateQuizz"),
    Route(288, "PUT", "/coursequizzs", <<Lit("updateCourseQuizz")>>, "CourseQuizzController.UpdateQuizz"),
    Route(289, "DELETE", "/coursequizzs", <<Lit("DeleteCourseQuizz")>>, "CourseQuizzController.DeleteQuizz"),
    Route(290, "POST", "/articles", <<Lit("GetQuizzesByCourse")>>, "CourseQuizzController.GetQuizzesByCourse"),
    Route(297, "POST", "/cratings", <<Lit("GetCratingsByCourse")>>, "CratingController.GetCratingsByCourse"),
    Route(298, "POST", "/cratings", <<Lit("GetCratingsByStudent")>>, "CratingController.GetCratingsByStudent"),
    Route(299, "POST", "/cratings", <<Lit("GetCratingByCourseAndStudent")>>, "CratingController.GetCratingsByStudent"),
    Route(300, "POST", "/cratings", <<Lit("createCrating")>>, "CratingController.CreateCrating"),
    Route(301, "PUT", "/cratings", <<Lit("updateCrating")>>, "CratingController.UpdateCrating"),
    Route(302, "DELETE", "/cratings", <<Lit("DeleteCrating")>>, "CratingController.DeleteCrating"),
    Route(303, "GET", "/cratings", <<Lit("GetAllCratings")>>, "CratingController.GetAllCratings"),
    Route(304, "POST", "/cratings", <<Lit("GetCourseAverageRating")>>, "CratingController.GetCourseAverageRating"),
    Route(311, "GET", "/exams", <<Lit("all")>>, "ExamController.GetAllExams"),
    Route(312, "POST", "/exams", <<Lit("get")>>, "ExamController.GetExam"),
    Route(313, "POST", "/exams", <<Lit("createExam")>>, "ExamController.CreateExam"),
    Route(314, "PUT", "/exams", <<Lit("updateExam")>>, "ExamController.UpdateExam"),
    Route(315, "DELETE", "/exams", <<Lit("DeleteExam")>>, "ExamController.DeleteExam"),
    Route(316, "POST", "/exams", <<Lit("GetExamsByCourse")>>, "ExamController.GetExamsByCourse"),
    Route(324, "GET", "/examquizzes", <<Lit("all")>>, "ExamQuizzController.GetAllExamQuizzes"),
    Route(325, "POST", "/examquizzes", <<Lit("get")>>, "ExamQuizzController.GetExamQuizz"),
    Route(326, "POST", "/examquizzes", <<Lit("GetExamQuizzesByExam")>>, "ExamQuizzController.GetExamQuizzesByExam"),
    Route(327, "POST", "/examquizzes", <<Lit("createExamQuiz")>>, "ExamQuizzController.CreateExamQuizz"),
    Route(328, "PUT", "/examquizzes", <<Lit("updateExamQuiz")>>, "ExamQuizzController.UpdateExamQuizz"),
    Route(329, "DELETE", "/examquizzes", <<Lit("DeleteExamQuiz")>>, "ExamQuizzController.DeleteExamQuizz"),
    Route(336, "GET", "/feedbacks", <<Lit("all")>>, "FeedbackController.GetAllFeedbacks"),
    Route(337, "POST", "/feedbacks", <<Lit("get")>>, "FeedbackController.GetFeedback"),
    Route(338, "POST", "/feedbacks", <<Lit("getFeedbacksByStudent")>>, "FeedbackController.GetFeedbacksByStudent"),
    Route(339, "POST", "/feedbacks", <<Lit("createFeedback")>>, "FeedbackController.CreateFeedback"),
    Route(340, "PUT", "/feedbacks", <<Lit("updateFeedback")>>, "FeedbackController.UpdateFeedback"),
    Route(341, "DELETE", "/feedbacks", <<Lit("DeleteFeedback")>>, "FeedbackController.DeleteFeedback"),
    Route(348, "GET", "/questions", <<Lit("all")>>, "QuestionController.GetAllQuestions"),
    Route(349, "POST", "/questions", <<Lit("get")>>, "QuestionController.GetQuestion"),
    Route(350, "POST", "/questions", <<Lit("createQuestion")>>, "QuestionController.CreateQuestion"),
    Route(351, "PUT", "/questions", <<Lit("updateQuestion")>>, "QuestionController.UpdateQuestion"),
    Route(352, "DELETE", "/questions", <<Lit("DeleteQuestion")>>, "QuestionController.DeleteQuestion"),
    Route(360, "GET", "/student_courses", <<Lit("all")>>, "StudentCourseController.GetAllStudentCourses"),
    Route(361, "POST", "/student_courses", <<Lit("get")>>, "StudentCourseController.GetStudentCourse"),
    Route(362, "POST", "/student_courses", <<Lit("SubmitExamAnswers")>>, "StudentCourseController.SubmitExamAnswers"),
    Route(363, "POST", "/student_courses", <<Lit("createStudentCourse")>>, "StudentCourseController.CreateStudentCourse"),
    Route(364, "PUT", "/student_courses", <<Lit("updateStudentCourse")>>, "StudentCourseController.UpdateStudentCourse"),
    Route(365, "DELETE", "/student_courses", <<Lit("DeleteStudentCourse")>>, "StudentCourseController.DeleteStudentCourse"),
    Route(370, "POST", "/students", <<Lit("CreateStudent")>>, "StudentController.CreateStudent"),
    Route(373, "GET", "/students", <<Lit("all")>>, "StudentController.GetAllStudents"),
    Route(374, "POST", "/students", <<Lit("GetStudent"), Par("id")>>, "StudentController.GetStudent"),
    Route(375, "PUT", "/students", <<Lit("UpdateUser")>>, "StudentController.UpdateStudent"),
    Route(376, "DELETE", "/students", <<Lit("DeleteUser")>>, "StudentController.DeleteStudent"),
    Route(381, "POST", "/teachers", <<Lit("login")>>, "GenerateToken"),
    Route(382, "POST", "/teachers", <<Lit("CreateTeacher")>>, "TeacherController.CreateTeacher"),
    Route(385, "GET", "/teachers", <<Lit("all")>>, "TeacherController.GetAllTeachers"),
    Route(386, "POST", "/teachers", <<Lit("GetTeacher")>>, "TeacherController.GetTeacher"),
    Route(387, "PUT", "/teachers", <<Lit("UpdateTeacher")>>, "TeacherController.UpdateTeacher"),
    Route(388, "DELETE", "/teachers", <<Lit("DeleteTeacher")>>, "TeacherController.DeleteTeacher")
}

\* InitRoutes: the line at which each group calls Use(AuthMiddleware())
UseLine ==
    "/answers" :> 235 @@
    "/articles" :> 248 @@
    "/categories" :> 260 @@
    "/Courses" :> 272 @@
    "/coursequizzs" :> 283 @@
    "/cratings" :> 295 @@
    "/exams" :> 309 @@
    "/examquizzes" :> 322 @@
    "/feedbacks" :> 334 @@
    "/questions" :> 346 @@
    "/student_courses" :> 358 @@
    "/students" :> 371 @@
    "/teachers" :> 383

\* gin: a group's middleware applies to the routes registered after Use
Protected(r) == r.line > UseLine[r.group]

\* the parameter names a route pattern declares
RouteParams(r) ==
    {r.path[i].name : i \in {j \in DOMAIN r.path : r.path[j].kind = "param"}}

AuthMiddleware_TeachersOnly(h, t) ==
    IF HeaderIsEmpty(h) \/ ValidateToken(h, t).err
    THEN [status |-> 401, abort |-> TRUE]
    ELSE IF ValidateToken(h, t).claims.Role # "teacher"
         THEN [status |-> 403, abort |-> TRUE]
         ELSE [status |-> 0, abort |-> FALSE]

AuthMiddleware_NoAbort(h, t) ==
    IF HeaderIsEmpty(h) \/ ValidateToken(h, t).err
    THEN [status |-> 401, abort |-> FALSE]
    ELSE [status |-> 0, abort |-> FALSE]

\* middlewares.AuthMiddleware at clock t: the status it writes (0: none) and
\* whether it aborts the chain
AuthMiddleware(h, t) ==
    IF HeaderIsEmpty(h)
    THEN [status |-> 401, abort |-> TRUE]
    ELSE IF ValidateToken(h, t).err
         THEN [status |-> 401, abort |-> TRUE]
         ELSE [status |-> 0, abort |-> FALSE]

(***************************************************************************)
(* Handlers.  A handler is a function of the gin context c (path           *)
(* parameters and body), the store d, the sequences s and the clock t; it  *)
(* yields the status it answers, the store and sequences it leaves, and    *)
(* what the response body carries.                                         *)
(***************************************************************************)
Result(status, d, s, out) == [status |-> status, db |-> d, seq |-> s, out |-> out]

NoToken == EmptyString
LoginOut(token, username, role, lookups) ==
    [token |-> token, username |-> username, role |-> role, lookups |-> lookups]

\* gorm's First: the matching row with the smallest primary key
First(rows) == CHOOSE u \in rows : \A v \in rows : u.id <= v.id

GenerateToken_NoRoleCheck(c, d, s, t) ==
    LET input == c.body
        table == IF input.Role = "teacher" THEN "teachers" ELSE "students"
        found == {u \in d[table] :
                    u.email = input.Identifier \/ u.username = input.Identifier}
    IN  IF ~input.bindOK
        THEN Result(400, d, s, LoginOut(NoToken, "", "", {}))
        ELSE IF found = {}
        THEN Result(401, d, s, LoginOut(NoToken, "", "", {table}))
        ELSE IF ~CheckPassword(First(found), input.Password)
        THEN Result(401, d, s, LoginOut(NoToken, "", "", {table}))
        ELSE Result(200, d, s,
                LoginOut(GenerateJWT(First(found).email, First(found).username,
                                     input.Role, t),
                         First(found).username, input.Role, {table}))

GenerateToken_NoPasswordCheck(c, d, s, t) ==
    LET input == c.body
        table == IF input.Role = "teacher" THEN "teachers" ELSE "students"
        found == {u \in d[table] :
                    u.email = input.Identifier \/ u.username = input.Identifier}
    IN  IF ~input.bindOK
        THEN Result(400, d, s, LoginOut(NoToken, "", "", {}))
        ELSE IF input.Role # "teacher" /\ input.Role # "student"
        THEN Result(400, d, s, LoginOut(NoToken, "", "", {}))
        ELSE IF found = {}
        THEN Result(401, d, s, LoginOut(NoToken, "", "", {table}))
        ELSE Result(200, d, s,
                LoginOut(GenerateJWT(First(found).email, First(found).username,
                                     input.Role, t),
                         First(found).username, input.Role, {table}))

\* controllers.GenerateToken
GenerateToken(c, d, s, t) ==
    LET input == c.body
        table == IF input.Role = "teacher" THEN "teachers" ELSE "students"
        \* Where("email = ? OR username = ?", Identifier, Identifier)
        found == {u \in d[table] :
                    u.email = input.Identifier \/ u.username = input.Identifier}
    IN  IF ~input.bindOK
        THEN Result(400, d, s, LoginOut(NoToken, "", "", {}))
        ELSE IF input.Role # "teacher" /\ input.Role # "student"
        THEN Result(400, d, s, LoginOut(NoToken, "", "", {}))
        ELSE IF found = {}
        THEN Result(401, d, s, LoginOut(NoToken, "", "", {table}))
        ELSE IF ~CheckPassword(First(found), input.Password)
        THEN Result(401, d, s, LoginOut(NoToken, "", "", {table}))
        ELSE Result(200, d, s,
                LoginOut(GenerateJWT(First(found).email, First(found).username,
                                     input.Role, t),
                         First(found).username, input.Role, {table}))

NoOut == [none |-> TRUE]

\* CategoryController.CreateCategory; dbErr: the INSERT fails
CreateCategory(c, d, s, dbErr) ==
    IF ~c.body.bindOK THEN Result(400, d, s, NoOut)
    ELSE IF c.body.Name = "" THEN Result(400, d, s, NoOut)
    ELSE IF dbErr THEN Result(500, d, s, NoOut)
    ELSE Result(201,
                [d EXCEPT !["categories"] =
                    @ \cup {[id |-> s["categories"], name |-> c.body.Name]}],
                [s EXCEPT !["categories"] = @ + 1],
                [id |-> s["categories"]])

\* CategoryController.UpdateCategory
UpdateCategory(c, d, s, dbErr) ==
    LET id == Atoi(Param(c, "id"))
        hit == {r \in d["categories"] : r.id = id.n}
    IN  IF id.err THEN Result(400, d, s, NoOut)
        ELSE IF ~c.body.bindOK THEN Result(400, d, s, NoOut)
        ELSE IF c.body.Name = "" THEN Result(400, d, s, NoOut)
        ELSE IF dbErr THEN Result(500, d, s, NoOut)
        ELSE IF hit = {} THEN Result(404, d, s, NoOut)
        ELSE Result(200,
                    [d EXCEPT !["categories"] =
                        (@ \ hit) \cup {[id |-> id.n, name |-> c.body.Name]}],
                    s, [id |-> id.n])

\* the rows sub_cats loses when a category goes (ON DELETE CASCADE), and
\* whether courses still reference it (no action: the DELETE fails)
CategoryReferenced(d, id) == \E r \in d["courses"] : r.category_id = id

\* CategoryController.DeleteCategory
DeleteCategory(c, d, s, dbErr) ==
    LET id == Atoi(Param(c, "id"))
        hit == {r \in d["categories"] : r.id = id.n}
    IN  IF id.err THEN Result(400, d, s, NoOut)
        ELSE IF dbErr \/ (hit # {} /\ CategoryReferenced(d, id.n))
        THEN Result(500, d, s, NoOut)
        ELSE IF hit = {} THEN Result(404, d, s, NoOut)
        ELSE Result(200,
                    [d EXCEPT !["categories"] = @ \ hit,
                              !["sub_cats"] = {r \in @ : r.category_id # id.n}],
                    s, NoOut)

(***************************************************************************)
(* Serving a request through the router: the chain of a route is           *)
(* AuthMiddleware (when the route is registered after the group's Use) and *)
(* then the controller's handler.  The auth and category controllers are   *)
(* expanded here; for the other handlers this specification records only   *)
(* that the handler ran (they are expanded in the specifications of their  *)
(* own).                                                                   *)
(***************************************************************************)
BadBody == [bindOK |-> FALSE]
LoginBodies ==
    {BadBody} \cup
    [bindOK : {TRUE}, Identifier : Emails \cup Usernames \cup {""},
     Password : Passwords, Role : RoleInputs]
CategoryBodies == {BadBody} \cup [bindOK : {TRUE}, Name : {"", "math"}]
NoBody == [bindOK |-> TRUE]

Bodies(handler) ==
    CASE handler = "GenerateToken" -> LoginBodies
      [] handler \in {"CategoryController.CreateCategory",
                      "CategoryController.UpdateCategory"} -> CategoryBodies
      [] OTHER -> {NoBody}

Expanded == {"GenerateToken", "CategoryController.CreateCategory",
             "CategoryController.UpdateCategory",
             "CategoryController.DeleteCategory"}

Handle(handler, c, d, s, t, dbErr) ==
    CASE handler = "GenerateToken" -> GenerateToken(c, d, s, t)
      [] handler = "CategoryController.CreateCategory" -> CreateCategory(c, d, s, dbErr)
      [] handler = "CategoryController.UpdateCategory" -> UpdateCategory(c, d, s, dbErr)
      [] handler = "CategoryController.DeleteCategory" -> DeleteCategory(c, d, s, dbErr)
      [] OTHER -> Result(0, d, s, NoOut)

\* what a client can put in the Authorization header: nothing, the token
\* it holds (after "Bearer ", bare, or after another scheme), that token
\* with its claims altered, tokens signed with another key or with no key,
\* a token signed with the server key that carries no exp, "Bearer " alone,
\* a string that is no token
AlteredClaims(tok) == [tok EXCEPT !.claims.json["role"] = "teacher",
                                  !.claims.exp = @ + TokenTTL]
ForeignTokens ==
    {SignedString("HS256", JWTClaim("ua", "a@x", "teacher", 2 * TokenTTL), OtherKey),
     SignedString("none", JWTClaim("ua", "a@x", "teacher", 2 * TokenTTL), ""),
     SignedString("HS256", JWTClaim("ua", "a@x", "teacher", 0), jwtKey),
     Garbage, EmptyString}
Headers ==
    {NoHeader}
    \cup {Header("Bearer ", tok) : tok \in ForeignTokens}
    \cup (IF issued = NoToken THEN {}
          ELSE {Header("Bearer ", issued), Header("", issued),
                Header("Basic ", issued), Header("Bearer ", AlteredClaims(issued))})

\* no request is between its checks and its write
Idle == [op |-> ""]

\* no request is being served
NoRequest ==
    [op |-> "", protected |-> FALSE, hdr |-> NoHeader, at |-> 0, status |-> 0,
     ran |-> FALSE, changed |-> FALSE, body |-> NoBody, out |-> NoOut]

\* the client keeps the token of a successful login
Remember(tok, res) ==
    IF res.status = 200 /\ "token" \in DOMAIN res.out THEN res.out.token ELSE tok

\* the chain of route r runs on a request with header h and context c
Serve(r, h, c, dbErr) ==
    LET mw == IF Protected(r) THEN AuthMiddleware(h, now)
              ELSE [status |-> 0, abort |-> FALSE]
        res == Handle(r.handler, c, db, seq, now, dbErr)
    IN  IF mw.abort
        THEN /\ last' = [op |-> r.handler, protected |-> Protected(r), hdr |-> h,
                         at |-> now, status |-> mw.status, ran |-> FALSE,
                         changed |-> FALSE, body |-> c.body, out |-> NoOut]
             /\ UNCHANGED <<now, db, seq, issued, inflight, served>>
        ELSE /\ db' = res.db
             /\ seq' = res.seq
             /\ issued' = Remember(issued, res)
             /\ last' = [op |-> r.handler, protected |-> Protected(r), hdr |-> h,
                         at |-> now,
                         status |-> IF mw.status # 0 THEN mw.status ELSE res.status,
                         ran |-> TRUE, changed |-> res.db # db,
                         body |-> c.body, out |-> res.out]
             /\ UNCHANGED <<now, inflight, served>>

\* a request arrives and is served
Request ==
    /\ last = NoRequest
    /\ \E r \in RouteTable, h \in Headers, dbErr \in BOOLEAN :
        \E ps \in [RouteParams(r) -> ParamStrings], b \in Bodies(r.handler) :
            /\ seq["categories"] <= MaxSerial
            /\ (dbErr => r.handler \in Expanded \ {"GenerateToken"})
            /\ Serve(r, h, [params |-> ps, body |-> b], dbErr)

\* the response has gone out; the server waits for the next request
Respond ==
    /\ last # NoRequest
    /\ last' = NoRequest
    /\ UNCHANGED <<now, db, seq, issued, inflight, served>>

\* the clock moves by a second
Second ==
    /\ (now - 1) % TokenTTL < MaxSkew
    /\ now' = now + 1
    /\ UNCHANGED <<db, seq, issued, last, inflight, served>>

\* the clock moves by the lifetime of a token
Lifetime ==
    /\ now <= TokenTTL
    /\ now' = now + TokenTTL
    /\ UNCHANGED <<db, seq, issued, last, inflight, served>>

\* account tables the server may start with: teachers are stored hashed
\* (CreateTeacher), students as CreateStudent stores them or hashed
TeacherRows == {User(1, "ua", "a@x", HashPassword("p1")),
                User(2, "ub", "b@x", HashPassword("p2"))}
StudentRows == {User(1, "ub", "a@x", HashPassword("p2")),
                User(2, "ua", "b@x", PlainText("p1"))}

InitAuth ==
    /\ now = 1
    /\ \E ts \in {{User(1, "ua", "a@x", HashPassword("p1"))}, TeacherRows},
          ss \in {{}, StudentRows} :
          db = [EmptyDB EXCEPT !["teachers"] = ts, !["students"] = ss]
    /\ seq = NewSeq
    /\ issued = NoToken
    /\ last = NoRequest
    /\ inflight = Idle
    /\ served = 0

NextAuth == Request \/ Respond \/ Second \/ Lifetime

SpecAuth == InitAuth /\ [][NextAuth]_vars

(***************************************************************************)
(* Exam grading: StudentCourseController.SubmitExamAnswers.  A transaction *)
(* is the connection's committed store and the store as the transaction    *)
(* sees it; Commit makes the second the first, Rollback drops it.          *)
(***************************************************************************)
NullString == [valid |-> FALSE]
StringPtr(str) == [valid |-> TRUE, str |-> str]

StudentCourse(student_id, course_id, grade, enrollment, certificate, iss) ==
    [student_id |-> student_id, course_id |-> course_id, grade |-> grade,
     enrollment |-> enrollment, certificate |-> certificate, issued |-> iss]
ExamQuizz(id, exam_id, answer) == [id |-> id, exam_id |-> exam_id, answer |-> answer]
ExamAnswer(quizzID, answer) == [QuizzID |-> quizzID, Answer |-> answer]

BeginTx(d) == [committed |-> d, pending |-> d]
Commit(tx) == tx.pending
Rollback_KeepsWrites(tx) == tx.pending
\* the deferred tx.Rollback() of a transaction that was not committed
Rollback(tx) == tx.committed

\* the points where the database can fail a request
Failures == {"none", "begin", "query", "exec", "commit"}

AnswersRequired == 20
PassMark == 10

\* the grading loop from answer i on: the status of the first lookup that
\* fails (0: none) and the number of correct answers
RECURSIVE GradeExam(_, _, _, _, _)
GradeExam(tx, answers, i, correctAnswers, fail) ==
    IF i > Len(answers) THEN [status |-> 0, correctAnswers |-> correctAnswers]
    ELSE LET rows == {q \in tx.pending["exam_quizzes"] : q.id = answers[i].QuizzID}
             correctAnswer == (CHOOSE q \in rows : TRUE).answer
         IN  IF fail # "query" /\ rows = {}
             THEN [status |-> 404, correctAnswers |-> correctAnswers]
             ELSE IF fail = "query" \/ correctAnswer < 0
             THEN [status |-> 500, correctAnswers |-> correctAnswers]
             ELSE GradeExam(tx, answers, i + 1,
                            IF answers[i].Answer = correctAnswer
                            THEN correctAnswers + 1 ELSE correctAnswers,
                            fail)

Passed_Strict(correctAnswers) == correctAnswers > PassMark
Passed(correctAnswers) == correctAnswers >= PassMark

Certificate(passed) ==
    IF passed THEN StringPtr("System of certificates available soon")
    ELSE NullString

ExecUpdateStudentCourse_GradeOnly(tx, grade, enrollment, certificate, iss, studentID, courseID) ==
    [tx EXCEPT !.pending["student_courses"] =
        {IF r.student_id = studentID /\ r.course_id = courseID
         THEN [r EXCEPT !.grade = grade]
         ELSE r : r \in @}]

\* updateStudentCourseQuery run in tx
ExecUpdateStudentCourse(tx, grade, enrollment, certificate, iss, studentID, courseID) ==
    [tx EXCEPT !.pending["student_courses"] =
        {IF r.student_id = studentID /\ r.course_id = courseID
         THEN StudentCourse(studentID, courseID, grade, enrollment, certificate, iss)
         ELSE r : r \in @}]

SubmitResponse(grade, passed, certificate) ==
    IF passed
    THEN [grade |-> grade, passed |-> passed, certificate_issued |-> passed,
          certificate |-> certificate.str]
    ELSE [grade |-> grade, passed |-> passed, certificate_issued |-> passed]

SubmitExamAnswers_NoLengthCheck(c, d, s, t, fail) ==
    LET studentID == ParseUint(Param(c, "studentId"))
        courseID == ParseUint(Param(c, "courseId"))
        answers == c.body.answers
        tx == BeginTx(d)
        graded == GradeExam(tx, answers, 1, 0, fail)
        grade == FormatUint(graded.correctAnswers) \o "/20"
        passed == Passed(graded.correctAnswers)
        certificate == Certificate(passed)
        tx2 == ExecUpdateStudentCourse(tx, grade, t, certificate, passed,
                                       studentID.n, courseID.n)
    IN  IF studentID.err THEN Result(400, d, s, NoOut)
        ELSE IF courseID.err THEN Result(400, d, s, NoOut)
        ELSE IF ~c.body.bindOK THEN Result(400, d, s, NoOut)
        ELSE IF fail = "begin" THEN Result(500, d, s, NoOut)
        ELSE IF graded.status # 0 THEN Result(graded.status, Rollback(tx), s, NoOut)
        ELSE IF fail = "exec" THEN Result(500, Rollback(tx), s, NoOut)
        ELSE IF fail = "commit" THEN Result(500, Rollback(tx2), s, NoOut)
        ELSE Result(200, Commit(tx2), s, SubmitResponse(grade, passed, certificate))

\* StudentCourseController.SubmitExamAnswers
SubmitExamAnswers(c, d, s, t, fail) ==
    LET studentID == ParseUint(Param(c, "studentId"))
        courseID == ParseUint(Param(c, "courseId"))
        answers == c.body.answers
        tx == BeginTx(d)
        graded == GradeExam(tx, answers, 1, 0, fail)
        grade == FormatUint(graded.correctAnswers) \o "/20"
        passed == Passed(graded.correctAnswers)
        certificate == Certificate(passed)
        tx2 == ExecUpdateStudentCourse(tx, grade, t, certificate, passed,
                                       studentID.n, courseID.n)
    IN  IF studentID.err THEN Result(400, d, s, NoOut)
        ELSE IF courseID.err THEN Result(400, d, s, NoOut)
        ELSE IF ~c.body.bindOK THEN Result(400, d, s, NoOut)
        ELSE IF Len(answers) # AnswersRequired THEN Result(400, d, s, NoOut)
        ELSE IF fail = "begin" THEN Result(500, d, s, NoOut)
        ELSE IF graded.status # 0 THEN Result(graded.status, Rollback(tx), s, NoOut)
        ELSE IF fail = "exec" THEN Result(500, Rollback(tx), s, NoOut)
        ELSE IF fail = "commit" THEN Result(500, Rollback(tx2), s, NoOut)
        ELSE Result(200, Commit(tx2), s, SubmitResponse(grade, passed, certificate))

\* answer lists: the first k entries name quiz q1, the others quiz q2, all
\* with the answer 1
AnswerList(len, k, q1, q2) ==
    [i \in 1..len |-> IF i <= k THEN ExamAnswer(q1, 1) ELSE ExamAnswer(q2, 1)]
QuizzIDs == {1, 2, 3}
AnswerLists ==
    {AnswerList(AnswersRequired, k, q1, q2) :
        k \in 0..AnswersRequired, q1 \in QuizzIDs, q2 \in QuizzIDs}
    \cup {AnswerList(len, 0, q, q) :
            len \in {AnswersRequired - 1, AnswersRequired + 1}, q \in {1, 3}}
SubmitBodies == {BadBody} \cup [bindOK : {TRUE}, answers : AnswerLists]

\* a submission arrives at the handler and is served
Submit ==
    /\ last = NoRequest
    /\ \E sid \in {"1", "2", "x"}, cid \in {"1", "-1"}, b \in SubmitBodies,
          fail \in Failures :
        LET c == [params |-> [studentId |-> sid, courseId |-> cid], body |-> b]
            res == SubmitExamAnswers(c, db, seq, now, fail)
        IN  /\ db' = res.db
            /\ seq' = res.seq
            /\ last' = [op |-> "SubmitExamAnswers", params |-> c.params,
                        body |-> b, fail |-> fail, at |-> now,
                        status |-> res.status, out |-> res.out]
            /\ UNCHANGED <<now, issued, inflight, served>>

\* one course with its exam of two quizzes (quiz 1: answer 1, quiz 2:
\* answer 2), two students, the first of them enrolled
InitExam ==
    /\ now = 1
    /\ db = [EmptyDB EXCEPT
                !["teachers"] = {User(1, "ua", "a@x", HashPassword("p1"))},
                !["students"] = {User(1, "", "a@x", PlainText("p1")),
                                 User(2, "", "b@x", PlainText("p2"))},
                !["categories"] = {[id |-> 1, name |-> "math"]},
                !["courses"] = {[id |-> 1, teacher_id |-> 1, category_id |-> 1]},
                !["exams"] = {[id |-> 1, course_id |-> 1]},
                !["exam_quizzes"] = {ExamQuizz(1, 1, 1), ExamQuizz(2, 1, 2)},
                !["student_courses"] =
                    {StudentCourse(1, 1, "", 0, NullString, FALSE)}]
    /\ seq = [NewSeq EXCEPT !["teachers"] = 2, !["students"] = 3,
                            !["categories"] = 2, !["courses"] = 2,
                            !["exams"] = 2, !["exam_quizzes"] = 3]
    /\ issued = NoToken
    /\ last = NoRequest
    /\ inflight = Idle
    /\ served = 0

NextExam == Submit \/ Respond \/ Second

SpecExam == InitExam /\ [][NextExam]_vars

(***************************************************************************)
(* The constraints of the SQL schema, as PostgreSQL enforces them on every *)
(* statement.                                                              *)
(***************************************************************************)
FK(child, col, parent, cascade) ==
    [child |-> child, col |-> col, parent |-> parent, cascade |-> cascade]

\* REFERENCES parent(id) [ON DELETE CASCADE]
ForeignKeys ==
    {FK("sub_cats", "category_id", "categories", TRUE),
     FK("courses", "teacher_id", "teachers", FALSE),
     FK("courses", "category_id", "categories", FALSE),
     FK("student_courses", "student_id", "students", FALSE),
     FK("student_courses", "course_id", "courses", FALSE),
     FK("cratings", "course_id", "courses", TRUE),
     FK("cratings", "student_id", "students", TRUE),
     FK("articles", "course_id", "courses", TRUE),
     FK("videos", "course_id", "courses", TRUE),
     FK("feedbacks", "student_id", "students", TRUE),
     FK("questions", "course_id", "courses", TRUE),
     FK("questions", "student_id", "students", TRUE),
     FK("answers", "question_id", "questions", TRUE),
     FK("exams", "course_id", "courses", TRUE),
     FK("course_quizzes", "course_id", "courses", TRUE),
     FK("exam_quizzes", "exam_id", "exams", TRUE)}

ForeignKeysOf(table) == {fk \in ForeignKeys : fk.child = table}
Refers(d, fk, row) == \E p \in d[fk.parent] : p.id = row[fk.col]

ForeignKeysHold_Unenforced(d, table, row) == TRUE
\* every foreign key of the row names a row of its parent table
ForeignKeysHold(d, table, row) ==
    \A fk \in ForeignKeysOf(table) : Refers(d, fk, row)

\* PRIMARY KEY (student_id, course_id) / (course_id, student_id); id elsewhere
PairTables == {"cratings", "student_courses"}
KeyOf(table, row) ==
    IF table \in PairTables THEN <<row.student_id, row.course_id>> ELSE <<row.id>>

UniqueHolds_Unenforced(d, table, row) == TRUE
\* UNIQUE columns, checked against the other rows of the table (a NULL
\* username, kept as "", collides with nothing)
UniqueHolds(d, table, row) ==
    LET others == {r \in d[table] : KeyOf(table, r) # KeyOf(table, row)}
    IN  CASE table = "exams" -> \A r \in others : r.course_id # row.course_id
          [] table \in {"teachers", "students"} ->
                \A r \in others :
                    /\ row.username # "" => r.username # row.username
                    /\ r.email # row.email
          [] OTHER -> TRUE

InsertRow_NoKeyCheck(d, table, row) ==
    IF ForeignKeysHold(d, table, row) /\ UniqueHolds(d, table, row)
    THEN [err |-> FALSE, db |-> [d EXCEPT ![table] = @ \cup {row}]]
    ELSE [err |-> TRUE, db |-> d]

\* INSERT
InsertRow(d, table, row) ==
    IF /\ ForeignKeysHold(d, table, row)
       /\ \A r \in d[table] : KeyOf(table, r) # KeyOf(table, row)
       /\ UniqueHolds(d, table, row)
    THEN [err |-> FALSE, db |-> [d EXCEPT ![table] = @ \cup {row}]]
    ELSE [err |-> TRUE, db |-> d]

UpdateRow_NoUniqueCheck(d, table, row) ==
    LET hit == {r \in d[table] : KeyOf(table, r) = KeyOf(table, row)}
    IN  IF hit = {} THEN [err |-> FALSE, n |-> 0, db |-> d]
        ELSE IF ForeignKeysHold(d, table, row)
        THEN [err |-> FALSE, n |-> 1,
              db |-> [d EXCEPT ![table] = (@ \ hit) \cup {row}]]
        ELSE [err |-> TRUE, n |-> 0, db |-> d]

UpdateRow_Upsert(d, table, row) ==
    [err |-> FALSE, n |-> 1,
     db |-> [d EXCEPT ![table] =
                {r \in @ : KeyOf(table, r) # KeyOf(table, row)} \cup {row}]]

\* UPDATE ... WHERE key: n is RowsAffected
UpdateRow(d, table, row) ==
    LET hit == {r \in d[table] : KeyOf(table, r) = KeyOf(table, row)}
    IN  IF hit = {} THEN [err |-> FALSE, n |-> 0, db |-> d]
        ELSE IF ForeignKeysHold(d, table, row) /\ UniqueHolds(d, table, row)
        THEN [err |-> FALSE, n |-> 1,
              db |-> [d EXCEPT ![table] = (@ \ hit) \cup {row}]]
        ELSE [err |-> TRUE, n |-> 0, db |-> d]

\* the rows that reference a row of S through a foreign key that cascades
\* (or through one that does not)
Referencing(d, S, cascade) ==
    UNION {{[t |-> fk.child, r |-> x] :
                x \in {y \in d[fk.child] :
                        \E z \in S : z.t = fk.parent /\ y[fk.col] = z.r.id}} :
           fk \in {f \in ForeignKeys : f.cascade = cascade}}

RECURSIVE Doomed(_, _)
Doomed(d, S) ==
    LET more == S \cup Referencing(d, S, TRUE)
    IN  IF more = S THEN S ELSE Doomed(d, more)

DeleteRow_NoCascade(d, table, id) ==
    LET hit == {y \in d[table] : y.id = id}
    IN  [err |-> FALSE, n |-> Cardinality(hit), db |-> [d EXCEPT ![table] = @ \ hit]]

\* DELETE ... WHERE id: the row goes with everything that cascades from it,
\* unless a row that stays references one that would go
DeleteRow(d, table, id) ==
    LET hit == {[t |-> table, r |-> x] : x \in {y \in d[table] : y.id = id}}
        gone == Doomed(d, hit)
    IN  IF Referencing(d, gone, FALSE) \ gone # {}
        THEN [err |-> TRUE, n |-> 0, db |-> d]
        ELSE [err |-> FALSE, n |-> Cardinality(hit),
              db |-> [t \in Tables |-> d[t] \ {x.r : x \in {y \in gone : y.t = t}}]]

(***************************************************************************)
(* The entity controllers.  A handler is described by the table it writes, *)
(* the foreign keys it looks up before writing (SELECT EXISTS ... -> 404), *)
(* and whether it turns RowsAffected = 0 into 404.  The existence checks   *)
(* and the write are separate statements on the connection pool: other     *)
(* requests run between them.                                              *)
(***************************************************************************)
Handler(name, kind, table, checks, rowsChecked) ==
    [name |-> name, kind |-> kind, table |-> table, checks |-> checks,
     rowsChecked |-> rowsChecked]

CreateCourse == Handler("CreateCourse", "create", "courses", {}, FALSE)
CreateExam == Handler("CreateExam", "create", "exams", {"course_id"}, FALSE)
CreateExamQuizz == Handler("CreateExamQuizz", "create", "exam_quizzes", {"exam_id"}, FALSE)
CreateArticle == Handler("CreateArticle", "create", "articles", {"course_id"}, FALSE)
CreateVideo == Handler("CreateVideo", "create", "videos", {"course_id"}, FALSE)
CreateQuizz == Handler("CreateQuizz", "create", "course_quizzes", {"course_id"}, FALSE)
CreateQuestion == Handler("CreateQuestion", "create", "questions", {}, FALSE)
CreateAnswer == Handler("CreateAnswer", "create", "answers", {"question_id"}, FALSE)
CreateCrating == Handler("CreateCrating", "create", "cratings", {}, FALSE)
CreateStudentCourse == Handler("CreateStudentCourse", "create", "student_courses", {}, FALSE)
UpdateExam == Handler("UpdateExam", "update", "exams", {"course_id"}, TRUE)
UpdateQuestion == Handler("UpdateQuestion", "update", "questions", {}, TRUE)
DeleteCourse == Handler("DeleteCourse", "delete", "courses", {}, TRUE)
DeleteExam == Handler("DeleteExam", "delete", "exams", {}, TRUE)
DeleteQuestion == Handler("DeleteQuestion", "delete", "questions", {}, TRUE)
DeleteStudent == Handler("DeleteStudent", "delete", "students", {}, FALSE)
DeleteTeacher == Handler("DeleteTeacher", "delete", "teachers", {}, TRUE)

Handlers ==
    {CreateCourse, CreateExam, CreateExamQuizz, CreateArticle, CreateVideo,
     CreateQuizz, CreateQuestion, CreateAnswer, CreateCrating,
     CreateStudentCourse, UpdateExam, UpdateQuestion, DeleteCourse, DeleteExam,
     DeleteQuestion, DeleteStudent, DeleteTeacher}

\* the ids a request can name
IDs == 1..MaxSerial

\* the foreign keys a request body of the table carries
RequestBodies(table) ==
    CASE table = "courses" -> [teacher_id : IDs, category_id : IDs]
      [] table = "exam_quizzes" -> [exam_id : IDs]
      [] table = "sub_cats" -> [category_id : IDs]
      [] table = "answers" -> [question_id : IDs]
      [] table \in {"questions", "cratings"} ->
            [course_id : IDs, student_id : IDs]
      [] table = "student_courses" ->
            [course_id : IDs, student_id : IDs, grade : {"", "A"}]
      [] OTHER -> [course_id : IDs]

Contexts(h) ==
    IF h.kind = "create"
    THEN {[params |-> <<>>, body |-> b] : b \in RequestBodies(h.table)}
    ELSE IF h.kind = "update"
    THEN {[params |-> [id |-> i], body |-> b] :
            i \in {"1", "2"}, b \in RequestBodies(h.table)}
    ELSE {[params |-> [id |-> i], body |-> <<>>] : i \in {"1", "2", "x"}}

\* ShouldBindJSON: a field the body does not carry keeps its zero value
JSONField(body, key, zero) == IF key \in DOMAIN body THEN body[key] ELSE zero

\* the row a statement writes; CreateStudentCourse sets sc.Enrollment =
\* time.Now() and sc.Issued = false and takes the rest from the body
RowOf(table, body, id, t) ==
    CASE table = "student_courses" ->
            StudentCourse(body.student_id, body.course_id, body.grade, t,
                          JSONField(body, "certificate", NullString), FALSE)
      [] table = "cratings" -> body
      [] table = "exam_quizzes" -> ExamQuizz(id, body.exam_id, 1)
      [] OTHER -> [k \in DOMAIN body \cup {"id"} |->
                        IF k = "id" THEN id ELSE body[k]]

\* validate...: the ids of the body must be positive; the id of the path
\* must parse
Invalid(h, c) ==
    \/ h.kind # "create" /\ Atoi(Param(c, "id")).err
    \/ h.kind # "delete" /\ \E k \in DOMAIN c.body \ {"grade", "certificate", "issued"} : c.body[k] <= 0

\* the SELECT EXISTS lookups of the handler find a parent missing
CheckFails(h, c, d) ==
    \/ \E fk \in ForeignKeysOf(h.table) :
            fk.col \in h.checks /\ ~Refers(d, fk, c.body)
    \/ /\ "id" \in h.checks
       /\ \A r \in d[h.table] : r.id # Atoi(Param(c, "id")).n

\* some foreign key of the request names no row
NamesMissingRow(h, c, d) ==
    /\ h.kind # "delete"
    /\ \E fk \in ForeignKeysOf(h.table) : ~Refers(d, fk, c.body)

\* the write statement of the handler and the response it leads to
Write(h, c, d, s, t) ==
    LET id == IF h.kind = "create" THEN s[h.table] ELSE Atoi(Param(c, "id")).n
        ins == InsertRow(d, h.table, RowOf(h.table, c.body, id, t))
        upd == UpdateRow(d, h.table, RowOf(h.table, c.body, id, t))
        del == DeleteRow(d, h.table, id)
    IN  CASE h.kind = "create" ->
                IF ins.err THEN Result(500, d, s, NoOut)
                ELSE Result(201, ins.db,
                            IF h.table \in PairTables THEN s
                            ELSE [s EXCEPT ![h.table] = @ + 1], NoOut)
          [] h.kind = "update" ->
                IF upd.err THEN Result(500, d, s, NoOut)
                ELSE IF h.rowsChecked /\ upd.n = 0 THEN Result(404, d, s, NoOut)
                ELSE Result(200, upd.db, s, NoOut)
          [] h.kind = "delete" ->
                IF del.err THEN Result(500, d, s, NoOut)
                ELSE IF h.rowsChecked /\ del.n = 0 THEN Result(404, d, s, NoOut)
                ELSE Result(200, del.db, s, NoOut)

Answer(h, c, status, missing) ==
    [op |-> h.name, kind |-> h.kind, c |-> c, status |-> status,
     missing |-> missing]

MayStart(h) ==
    /\ served < MaxServed
    /\ (h.kind = "create" /\ h.table \notin PairTables) => seq[h.table] <= MaxSerial

\* a handler with existence checks validates its input and runs its checks
Check ==
    /\ inflight = Idle
    /\ \E h \in {x \in Handlers : x.checks # {}} : \E c \in Contexts(h) :
        /\ MayStart(h)
        /\ IF Invalid(h, c) \/ CheckFails(h, c, db)
           THEN UNCHANGED inflight
           ELSE inflight' = [op |-> h.name, h |-> h, c |-> c]
    /\ served' = served + 1
    /\ UNCHANGED <<now, db, seq, issued, last>>

\* the handler that passed its checks runs its write statement
Complete ==
    /\ inflight # Idle
    /\ LET res == Write(inflight.h, inflight.c, db, seq, now)
       IN  db' = res.db /\ seq' = res.seq
    /\ inflight' = Idle
    /\ UNCHANGED <<now, issued, last, served>>

\* a handler without existence checks: validation and one statement
Statement ==
    /\ \E h \in {x \in Handlers : x.checks = {}} : \E c \in Contexts(h) :
        /\ MayStart(h)
        /\ LET res == IF Invalid(h, c) THEN Result(400, db, seq, NoOut)
                      ELSE Write(h, c, db, seq, now)
           IN  db' = res.db /\ seq' = res.seq
    /\ served' = served + 1
    /\ UNCHANGED <<now, issued, last, inflight>>

\* the whole handler: validation, existence checks, write
Run(h, c, d, s, t) ==
    IF Invalid(h, c) THEN Result(400, d, s, NoOut)
    ELSE IF CheckFails(h, c, d) THEN Result(404, d, s, NoOut)
    ELSE Write(h, c, d, s, t)

\* a request to an entity controller is served with no other request
\* running beside it
Call ==
    /\ \E h \in Handlers : \E c \in Contexts(h) :
        /\ MayStart(h)
        /\ LET res == Run(h, c, db, seq, now)
           IN  /\ db' = res.db
               /\ seq' = res.seq
               /\ last' = Answer(h, c, res.status, NamesMissingRow(h, c, db))
    /\ served' = served + 1
    /\ UNCHANGED <<now, issued, inflight>>

InitStore ==
    /\ now = 1
    /\ db = [EmptyDB EXCEPT
                !["teachers"] = {User(1, "ua", "a@x", HashPassword("p1"))},
                !["students"] = {User(1, "", "a@x", PlainText("p1"))},
                !["categories"] = {[id |-> 1, name |-> "math"]}]
    /\ seq = [NewSeq EXCEPT !["teachers"] = 2, !["students"] = 2,
                            !["categories"] = 2]
    /\ issued = NoToken
    /\ last = NoRequest
    /\ inflight = Idle
    /\ served = 0

NextStore == Call

SpecStore == InitStore /\ [][NextStore]_vars

NextRace == Check \/ Complete \/ Statement

SpecRace == InitStore /\ [][NextRace]_vars

(***************************************************************************)
(* The account controllers.  CreateTeacher and UpdateTeacher validate the  *)
(* body, run checkUniqueness (two SELECT EXISTS on the pool) and then      *)
(* write; other requests run between the checks and the write.  In this    *)
(* specification inflight is the set of requests that passed their checks  *)
(* and have not written yet.                                               *)
(***************************************************************************)
\* models.Teacher as a request body binds it (the columns the handlers
\* decide on)
Teacher(id, fullName, username, email, password) ==
    [ID |-> id, FullName |-> fullName, username |-> username, email |-> email,
     Password |-> password]

\* TeacherController.validateTeacher: "" when the body is accepted
validateTeacher(teacher) ==
    IF teacher.FullName = "" THEN "full name is required"
    ELSE IF teacher.username = "" THEN "username is required"
    ELSE IF teacher.email = "" THEN "email is required"
    ELSE IF teacher.Password = "" /\ teacher.ID = 0 THEN "password is required"
    ELSE ""

\* TeacherController.checkUniqueness: checkUsernameQuery, checkEmailQuery
checkUniqueness(d, teacher) ==
    IF \E r \in d["teachers"] : r.username = teacher.username /\ r.id # teacher.ID
    THEN "username already exists"
    ELSE IF \E r \in d["teachers"] : r.email = teacher.email /\ r.id # teacher.ID
    THEN "email already exists"
    ELSE ""

\* the teacher a response carries: teacher.Password = "" before c.JSON
ClearPassword_Keeps(teacher) == teacher
ClearPassword(teacher) == [teacher EXCEPT !.Password = ""]

\* a stored row as rows.Scan fills a models.Teacher from it: the password
\* column is the stored string
PasswordColumn(hash) ==
    IF hash.bcrypt THEN "$2a$14$" \o hash.of ELSE hash.of

ScanTeacher(row) ==
    Teacher(row.id, "T", row.username, row.email, PasswordColumn(row.password))

TeacherOut(teacher) == [teacher |-> teacher]

\* CreateTeacher up to checkUniqueness: 0 when the request goes on to write
CreateTeacherChecks(c, d) ==
    IF ~c.body.bindOK THEN 400
    ELSE IF validateTeacher(c.body.teacher) # "" THEN 400
    ELSE IF checkUniqueness(d, c.body.teacher) # "" THEN 400
    ELSE 0

\* CreateTeacher from HashPassword on: the insert in its transaction
CreateTeacherWrite(c, d, s) ==
    LET teacher == c.body.teacher
        id == s["teachers"]
        ins == InsertRow(d, "teachers",
                         User(id, teacher.username, teacher.email,
                              HashPassword(teacher.Password)))
    IN  IF ins.err THEN Result(500, d, s, NoOut)
        ELSE Result(201, ins.db, [s EXCEPT !["teachers"] = @ + 1],
                    TeacherOut(ClearPassword(
                        [teacher EXCEPT !.ID = id,
                            !.Password = PasswordColumn(HashPassword(teacher.Password))])))

CreateTeacher(c, d, s) ==
    IF CreateTeacherChecks(c, d) # 0
    THEN Result(CreateTeacherChecks(c, d), d, s, NoOut)
    ELSE CreateTeacherWrite(c, d, s)

\* UpdateTeacher up to checkUniqueness; teacher.ID = uint(id)
UpdateTeacherChecks(c, d) ==
    IF Atoi(Param(c, "id")).err THEN 400
    ELSE IF ~c.body.bindOK THEN 400
    ELSE LET teacher == [c.body.teacher EXCEPT !.ID = Atoi(Param(c, "id")).n]
         IN  IF validateTeacher(teacher) # "" THEN 400
             ELSE IF checkUniqueness(d, teacher) # "" THEN 400
             ELSE 0

\* UpdateTeacher from the password lookup on
UpdateTeacherWrite(c, d, s) ==
    LET id == Atoi(Param(c, "id")).n
        teacher == [c.body.teacher EXCEPT !.ID = id]
        current == {r \in d["teachers"] : r.id = id}
        password == IF teacher.Password # "" THEN PlainText(teacher.Password)
                    ELSE (CHOOSE r \in current : TRUE).password
        upd == UpdateRow(d, "teachers",
                         User(id, teacher.username, teacher.email, password))
    IN  IF teacher.Password = "" /\ current = {} THEN Result(500, d, s, NoOut)
        ELSE IF upd.err THEN Result(500, d, s, NoOut)
        ELSE IF upd.n = 0 THEN Result(404, d, s, NoOut)
        ELSE Result(200, upd.db, s,
                    TeacherOut(ClearPassword(
                        [teacher EXCEPT !.Password = PasswordColumn(password)])))

UpdateTeacher(c, d, s) ==
    IF UpdateTeacherChecks(c, d) # 0
    THEN Result(UpdateTeacherChecks(c, d), d, s, NoOut)
    ELSE UpdateTeacherWrite(c, d, s)

\* GetTeacher
GetTeacher(c, d, s) ==
    LET id == Atoi(Param(c, "id"))
        rows == {r \in d["teachers"] : r.id = id.n}
    IN  IF id.err THEN Result(400, d, s, NoOut)
        ELSE IF rows = {} THEN Result(404, d, s, NoOut)
        ELSE Result(200, d, s,
                    TeacherOut(ClearPassword(ScanTeacher(CHOOSE r \in rows : TRUE))))

\* GetAllTeachers
GetAllTeachers(c, d, s) ==
    Result(200, d, s,
           [teachers |-> {ClearPassword(ScanTeacher(r)) : r \in d["teachers"]}])

\* models.Student as a request body binds it
Student(fullName, email, password) ==
    [FullName |-> fullName, email |-> email, Password |-> password]

\* StudentController.CreateStudent: one INSERT of full_name, email, password
\* and picture; the username column is left NULL, which the column's
\* NOT NULL (where the table was created with it) refuses
CreateStudent(c, d, s, notNull) ==
    LET student == c.body.student
        id == s["students"]
        ins == InsertRow(d, "students",
                         User(id, "", student.email, PlainText(student.Password)))
    IN  IF ~c.body.bindOK THEN Result(400, d, s, NoOut)
        ELSE IF notNull \/ ins.err THEN Result(500, d, s, NoOut)
        ELSE Result(201, ins.db, [s EXCEPT !["students"] = @ + 1],
                    [student |-> student])

\* StudentController.UpdateStudent: one UPDATE, RowsAffected is not read
UpdateStudent(c, d, s) ==
    LET id == Atoi(Param(c, "id"))
        student == c.body.student
        current == {r \in d["students"] : r.id = id.n}
        upd == UpdateRow(d, "students",
                         User(id.n, (CHOOSE r \in current : TRUE).username,
                              student.email, PlainText(student.Password)))
    IN  IF id.err \/ ~c.body.bindOK THEN Result(400, d, s, NoOut)
        ELSE IF current = {} THEN Result(200, d, s, [student |-> student])
        ELSE IF upd.err THEN Result(500, d, s, NoOut)
        ELSE Result(200, upd.db, s, [student |-> student])

\* request bodies of the account controllers
TeacherBodies ==
    {BadBody} \cup
    {[bindOK |-> TRUE, teacher |-> Teacher(id, "T", u, e, p)] :
        id \in {0, 1}, u \in Usernames, e \in Emails, p \in {"", "p2"}}
    \cup {[bindOK |-> TRUE, teacher |-> Teacher(0, "T", "", "a@x", "p2")]}
StudentBodies ==
    {BadBody} \cup
    {[bindOK |-> TRUE, student |-> Student("S", e, "p2")] : e \in Emails}

AccountAnswer(op, c, res) ==
    [op |-> op, c |-> c, status |-> res.status, out |-> res.out]

NoParams == <<>>

\* CreateTeacher or UpdateTeacher runs up to the end of checkUniqueness
TeacherChecks ==
    /\ served < MaxRequests
    /\ \E op \in {"CreateTeacher", "UpdateTeacher"}, b \in TeacherBodies,
          id \in {"1", "2", "x"} :
        LET c == [params |-> IF op = "CreateTeacher" THEN NoParams ELSE [id |-> id],
                  body |-> b]
            status == IF op = "CreateTeacher" THEN CreateTeacherChecks(c, db)
                      ELSE UpdateTeacherChecks(c, db)
        IN  /\ op = "CreateTeacher" => (id = "1" /\ seq["teachers"] <= MaxSerial)
            /\ op = "UpdateTeacher" => (IF b.bindOK THEN b.teacher.ID = 0 ELSE TRUE)
            /\ IF status # 0
               THEN /\ last' = AccountAnswer(op, c, Result(status, db, seq, NoOut))
                    /\ UNCHANGED inflight
               ELSE /\ inflight' = Append(inflight, [op |-> op, c |-> c])
                    /\ UNCHANGED last
    /\ served' = served + 1
    /\ UNCHANGED <<now, db, seq, issued>>

\* a request that passed its checks writes and answers
TeacherWrites ==
    /\ \E i \in DOMAIN inflight :
        LET req == inflight[i]
            res == IF req.op = "CreateTeacher"
                   THEN CreateTeacherWrite(req.c, db, seq)
                   ELSE UpdateTeacherWrite(req.c, db, seq)
        IN  /\ db' = res.db
            /\ seq' = res.seq
            /\ last' = AccountAnswer(req.op, req.c, res)
            /\ inflight' = SubSeq(inflight, 1, i - 1)
                            \o SubSeq(inflight, i + 1, Len(inflight))
    /\ UNCHANGED <<now, issued, served>>

\* GetTeacher and GetAllTeachers
TeacherReads ==
    /\ served < MaxRequests
    /\ \/ \E id \in {"1", "2", "x"} :
            LET c == [params |-> [id |-> id], body |-> NoBody]
            IN  last' = AccountAnswer("GetTeacher", c, GetTeacher(c, db, seq))
       \/ LET c == [params |-> NoParams, body |-> NoBody]
          IN  last' = AccountAnswer("GetAllTeachers", c, GetAllTeachers(c, db, seq))
    /\ served' = served + 1
    /\ UNCHANGED <<now, db, seq, issued, inflight>>

\* CreateStudent and UpdateStudent: one statement each
StudentWrites ==
    /\ served < MaxRequests
    /\ \E b \in StudentBodies :
        \/ \E notNull \in BOOLEAN :
            LET c == [params |-> NoParams, body |-> b]
                res == CreateStudent(c, db, seq, notNull)
            IN  /\ seq["students"] <= MaxSerial
                /\ db' = res.db /\ seq' = res.seq
                /\ last' = AccountAnswer("CreateStudent", c, res)
        \/ \E id \in {"1", "2", "x"} :
            LET c == [params |-> [id |-> id], body |-> b]
                res == UpdateStudent(c, db, seq)
            IN  /\ db' = res.db /\ seq' = res.seq
                /\ last' = AccountAnswer("UpdateStudent", c, res)
    /\ served' = served + 1
    /\ UNCHANGED <<now, issued, inflight>>

InitAccount ==
    /\ now = 1
    /\ db = [EmptyDB EXCEPT
                !["teachers"] = {User(1, "ua", "a@x", HashPassword("p1"))},
                !["students"] = {User(1, "", "a@x", PlainText("p1"))}]
    /\ seq = [NewSeq EXCEPT !["teachers"] = 2, !["students"] = 2]
    /\ issued = NoToken
    /\ last = NoRequest
    /\ inflight = <<>>
    /\ served = 0

NextAccount == TeacherChecks \/ TeacherWrites \/ TeacherReads \/ StudentWrites

SpecAccount == InitAccount /\ [][NextAccount]_vars

(***************************************************************************)
(* Updates and deletes by key, on a store that already holds rows.         *)
(***************************************************************************)
UpdateCourse == Handler("UpdateCourse", "update", "courses", {"id"}, TRUE)
UpdateExamQuizz == Handler("UpdateExamQuizz", "update", "exam_quizzes", {"exam_id"}, TRUE)
DeleteExamQuizz == Handler("DeleteExamQuizz", "delete", "exam_quizzes", {}, TRUE)
UpdateSubCat == Handler("UpdateSubCat", "update", "sub_cats", {"category_id"}, TRUE)
DeleteSubCat == Handler("DeleteSubCat", "delete", "sub_cats", {}, TRUE)
UpdateAnswer == Handler("UpdateAnswer", "update", "answers", {"question_id"}, FALSE)
DeleteAnswer == Handler("DeleteAnswer", "delete", "answers", {}, FALSE)

KeyedHandlers ==
    {CreateExam, UpdateExam, DeleteExam, UpdateExamQuizz, DeleteExamQuizz,
     UpdateSubCat, DeleteSubCat, UpdateCourse, DeleteCourse, DeleteTeacher,
     UpdateQuestion, DeleteQuestion, UpdateAnswer, DeleteAnswer}

\* StudentCourseController.UpdateStudentCourse
UpdateStudentCourse(c, d, s) ==
    LET studentID == ParseUint(Param(c, "studentId"))
        courseID == ParseUint(Param(c, "courseId"))
        upd == UpdateRow(d, "student_courses",
                         StudentCourse(studentID.n, courseID.n,
                                       JSONField(c.body, "grade", ""),
                                       JSONField(c.body, "enrollment", 0),
                                       JSONField(c.body, "certificate", NullString),
                                       JSONField(c.body, "issued", FALSE)))
    IN  IF studentID.err \/ courseID.err THEN Result(400, d, s, NoOut)
        ELSE IF ~c.body.bindOK THEN Result(400, d, s, NoOut)
        ELSE IF upd.err THEN Result(500, d, s, NoOut)
        ELSE IF upd.n = 0 THEN Result(404, d, s, NoOut)
        ELSE Result(200, upd.db, s, NoOut)

\* StudentCourseController.DeleteStudentCourse
DeleteStudentCourse(c, d, s) ==
    LET studentID == ParseUint(Param(c, "studentId"))
        courseID == ParseUint(Param(c, "courseId"))
        hit == {r \in d["student_courses"] :
                    r.student_id = studentID.n /\ r.course_id = courseID.n}
    IN  IF studentID.err \/ courseID.err THEN Result(400, d, s, NoOut)
        ELSE IF hit = {} THEN Result(404, d, s, NoOut)
        ELSE Result(200, [d EXCEPT !["student_courses"] = @ \ hit], s, NoOut)

\* the handlers of this specification that are written out in full, and the
\* requests they take
KeyedOps ==
    {"UpdateCategory", "DeleteCategory", "UpdateTeacher", "UpdateStudentCourse",
     "DeleteStudentCourse"}

KeyedContexts(op) ==
    CASE op = "UpdateCategory" ->
            {[params |-> [id |-> i], body |-> b] :
                i \in {"1", "2", "x"}, b \in CategoryBodies}
      [] op = "DeleteCategory" ->
            {[params |-> [id |-> i], body |-> NoBody] : i \in {"1", "2", "x"}}
      [] op = "UpdateTeacher" ->
            {[params |-> [id |-> i], body |-> b] :
                i \in {"1", "2"},
                b \in {x \in TeacherBodies :
                        IF x.bindOK THEN x.teacher.ID = 0 ELSE TRUE}}
      [] op = "UpdateStudentCourse" ->
            {[params |-> [studentId |-> i, courseId |-> j], body |-> b] :
                i \in {"1", "2"}, j \in {"1", "x"},
                b \in {BadBody, [bindOK |-> TRUE, grade |-> "A"]}}
      [] op = "DeleteStudentCourse" ->
            {[params |-> [studentId |-> i, courseId |-> j], body |-> NoBody] :
                i \in {"1", "2"}, j \in {"1", "x"}}

KeyedHandle(op, c, d, s) ==
    CASE op = "UpdateCategory" -> UpdateCategory(c, d, s, FALSE)
      [] op = "DeleteCategory" -> DeleteCategory(c, d, s, FALSE)
      [] op = "UpdateTeacher" -> UpdateTeacher(c, d, s)
      [] op = "UpdateStudentCourse" -> UpdateStudentCourse(c, d, s)
      [] op = "DeleteStudentCourse" -> DeleteStudentCourse(c, d, s)

\* a request to one of the described handlers is served
KeyedCall ==
    /\ served < MaxRequests
    /\ \E h \in KeyedHandlers : \E c \in Contexts(h) :
        /\ MayStart(h)
        /\ LET res == Run(h, c, db, seq, now)
           IN  /\ db' = res.db
               /\ seq' = res.seq
               /\ last' = Answer(h, c, res.status, NamesMissingRow(h, c, db))
    /\ served' = served + 1
    /\ UNCHANGED <<now, issued, inflight>>

\* a request to one of the handlers written out in full is served
KeyedRequest ==
    /\ served < MaxRequests
    /\ \E op \in KeyedOps : \E c \in KeyedContexts(op) :
        LET res == KeyedHandle(op, c, db, seq)
        IN  /\ db' = res.db
            /\ seq' = res.seq
            /\ last' = [op |-> op,
                        kind |-> IF op \in {"DeleteCategory", "DeleteStudentCourse"}
                                 THEN "delete" ELSE "update",
                        c |-> c, status |-> res.status, missing |-> FALSE]
    /\ served' = served + 1
    /\ UNCHANGED <<now, issued, inflight>>

\* a store with rows in every table the handlers key into
InitKeys ==
    /\ now = 1
    /\ db = [EmptyDB EXCEPT
                !["teachers"] = {User(1, "ua", "a@x", HashPassword("p1"))},
                !["students"] = {User(1, "", "a@x", PlainText("p1"))},
                !["categories"] = {[id |-> 1, name |-> "math"]},
                !["sub_cats"] = {[id |-> 1, category_id |-> 1]},
                !["courses"] = {[id |-> 1, teacher_id |-> 1, category_id |-> 1],
                                [id |-> 2, teacher_id |-> 1, category_id |-> 1]},
                !["student_courses"] =
                    {StudentCourse(1, 1, "", 1, NullString, FALSE)},
                !["exams"] = {[id |-> 1, course_id |-> 1]},
                !["exam_quizzes"] = {ExamQuizz(1, 1, 1)},
                !["questions"] = {[id |-> 1, course_id |-> 1, student_id |-> 1]},
                !["answers"] = {[id |-> 1, question_id |-> 1]}]
    /\ seq = [t \in Tables |->
                IF t = "courses" THEN 3
                ELSE IF db[t] # {} /\ t # "student_courses" THEN 2 ELSE 1]
    /\ issued = NoToken
    /\ last = NoRequest
    /\ inflight = Idle
    /\ served = 0

NextKeys == KeyedCall \/ KeyedRequest

SpecKeys == InitKeys /\ [][NextKeys]_vars

(***************************************************************************)
(* Enrollments under concurrent requests.  SubmitExamAnswers runs in its    *)
(* own transaction: BeginTx and the grading lookups, then the UPDATE of the *)
(* enrollment (which locks the row it matches until the transaction ends),  *)
(* then Commit; CreateStudentCourse and UpdateStudentCourse are single      *)
(* statements on the pool and run between those steps.  In this             *)
(* specification inflight is the sequence of open transactions.             *)
(***************************************************************************)
\* the enrollment a request names in its path
PairOf(c) ==
    <<ParseUint(Param(c, "studentId")).n, ParseUint(Param(c, "courseId")).n>>

\* SubmitExamAnswers up to the end of the grading loop: 0 when the request
\* goes on to its UPDATE
SubmitExamAnswersGrades(c, d, fail) ==
    IF ParseUint(Param(c, "studentId")).err THEN 400
    ELSE IF ParseUint(Param(c, "courseId")).err THEN 400
    ELSE IF ~c.body.bindOK THEN 400
    ELSE IF Len(c.body.answers) # AnswersRequired THEN 400
    ELSE IF fail = "begin" THEN 500
    ELSE GradeExam(BeginTx(d), c.body.answers, 1, 0, fail).status

\* the transaction after its grading loop
GradedTx(c, d, fail) ==
    [c |-> c, fail |-> fail, pc |-> "graded",
     correctAnswers |-> GradeExam(BeginTx(d), c.body.answers, 1, 0, fail).correctAnswers,
     enrollment |-> 0, matched |-> FALSE]

\* a transaction that ran its UPDATE on the row of the pair holds the row
\* lock: other writers of the row wait for its end
Locked(txs, pair) ==
    \E i \in DOMAIN txs :
        txs[i].pc = "updated" /\ txs[i].matched /\ PairOf(txs[i].c) = pair

\* what Commit makes of the store: the UPDATE of the transaction, if it
\* matched a row
CommitSubmit(tx, d) ==
    LET passed == Passed(tx.correctAnswers)
        grade == FormatUint(tx.correctAnswers) \o "/20"
    IN  IF tx.matched
        THEN Commit(ExecUpdateStudentCourse(BeginTx(d), grade, tx.enrollment,
                                            Certificate(passed), passed,
                                            PairOf(tx.c)[1], PairOf(tx.c)[2]))
        ELSE d

Remove(txs, i) == SubSeq(txs, 1, i - 1) \o SubSeq(txs, i + 1, Len(txs))

EnrollBodies ==
    [student_id : {1, 2}, course_id : {1}, grade : {""},
     certificate : {NullString, StringPtr("c")}]
EnrollmentUpdates ==
    {BadBody} \cup
    [bindOK : {TRUE}, grade : {"A"}, certificate : {NullString, StringPtr("c")},
     issued : BOOLEAN]
EnrollSubmissions ==
    {[bindOK |-> TRUE, answers |-> a] :
        a \in {AnswerList(AnswersRequired, AnswersRequired, 1, 1),
               AnswerList(AnswersRequired, 0, 2, 2),
               AnswerList(AnswersRequired, 0, 3, 3)}}

\* CreateStudentCourse: one statement
EnrollRequest ==
    /\ served < MaxRequests
    /\ \E b \in EnrollBodies :
        LET c == [params |-> NoParams, body |-> b]
            res == Run(CreateStudentCourse, c, db, seq, now)
        IN  /\ db' = res.db /\ seq' = res.seq
            /\ last' = AccountAnswer("CreateStudentCourse", c, res)
    /\ served' = served + 1
    /\ UNCHANGED <<now, issued, inflight>>

\* UpdateStudentCourse: one statement, which waits while the row is locked
EnrollmentUpdate ==
    /\ served < MaxRequests
    /\ \E sid \in {"1", "2"}, b \in EnrollmentUpdates :
        LET c == [params |-> [studentId |-> sid, courseId |-> "1"], body |-> b]
            res == UpdateStudentCourse(c, db, seq)
        IN  /\ ~Locked(inflight, PairOf(c))
            /\ db' = res.db /\ seq' = res.seq
            /\ last' = AccountAnswer("UpdateStudentCourse", c, res)
    /\ served' = served + 1
    /\ UNCHANGED <<now, issued, inflight>>

\* SubmitExamAnswers from its start to the end of the grading loop
SubmitBegin ==
    /\ served < MaxRequests
    /\ \E sid \in {"1", "2"}, b \in EnrollSubmissions, fail \in Failures :
        LET c == [params |-> [studentId |-> sid, courseId |-> "1"], body |-> b]
            status == SubmitExamAnswersGrades(c, db, fail)
        IN  IF status # 0
            THEN /\ last' = AccountAnswer("SubmitExamAnswers", c,
                                          Result(status, db, seq, NoOut))
                 /\ UNCHANGED inflight
            ELSE /\ inflight' = Append(inflight, GradedTx(c, db, fail))
                 /\ UNCHANGED last
    /\ served' = served + 1
    /\ UNCHANGED <<now, db, seq, issued>>

\* the UPDATE of an open transaction
SubmitExec ==
    /\ \E i \in DOMAIN inflight :
        LET tx == inflight[i]
        IN  /\ tx.pc = "graded"
            /\ IF tx.fail = "exec"
               THEN /\ last' = AccountAnswer("SubmitExamAnswers", tx.c,
                                             Result(500, db, seq, NoOut))
                    /\ inflight' = Remove(inflight, i)
               ELSE /\ ~Locked(inflight, PairOf(tx.c))
                    /\ inflight' =
                         [inflight EXCEPT ![i] =
                            [tx EXCEPT !.pc = "updated", !.enrollment = now,
                                !.matched = \E r \in db["student_courses"] :
                                    <<r.student_id, r.course_id>> = PairOf(tx.c)]]
                    /\ UNCHANGED last
    /\ UNCHANGED <<now, db, seq, issued, served>>

\* Commit (or the deferred Rollback when Commit fails) and the response
SubmitCommit ==
    /\ \E i \in DOMAIN inflight :
        LET tx == inflight[i]
            passed == Passed(tx.correctAnswers)
            grade == FormatUint(tx.correctAnswers) \o "/20"
        IN  /\ tx.pc = "updated"
            /\ IF tx.fail = "commit"
               THEN /\ last' = AccountAnswer("SubmitExamAnswers", tx.c,
                                             Result(500, db, seq, NoOut))
                    /\ UNCHANGED db
               ELSE /\ db' = CommitSubmit(tx, db)
                    /\ last' = AccountAnswer("SubmitExamAnswers", tx.c,
                                Result(200, db', seq,
                                       SubmitResponse(grade, passed, Certificate(passed))))
            /\ inflight' = Remove(inflight, i)
    /\ UNCHANGED <<now, seq, issued, served>>

\* the course with its exam and the enrolled first student, no transaction
\* open
InitEnroll ==
    /\ now = 1
    /\ db = [EmptyDB EXCEPT
                !["teachers"] = {User(1, "ua", "a@x", HashPassword("p1"))},
                !["students"] = {User(1, "", "a@x", PlainText("p1")),
                                 User(2, "", "b@x", PlainText("p2"))},
                !["categories"] = {[id |-> 1, name |-> "math"]},
                !["courses"] = {[id |-> 1, teacher_id |-> 1, category_id |-> 1]},
                !["exams"] = {[id |-> 1, course_id |-> 1]},
                !["exam_quizzes"] = {ExamQuizz(1, 1, 1), ExamQuizz(2, 1, 2)},
                !["student_courses"] =
                    {StudentCourse(1, 1, "", 0, NullString, FALSE)}]
    /\ seq = [NewSeq EXCEPT !["teachers"] = 2, !["students"] = 3,
                            !["categories"] = 2, !["courses"] = 2,
                            !["exams"] = 2, !["exam_quizzes"] = 3]
    /\ issued = NoToken
    /\ last = NoRequest
    /\ inflight = <<>>
    /\ served = 0

NextEnroll ==
    EnrollRequest \/ EnrollmentUpdate \/ SubmitBegin \/ SubmitExec \/ SubmitCommit

SpecEnroll == InitEnroll /\ [][NextEnroll]_vars

(***************************************************************************)
(* The by-key handlers of the exam and enrollment groups, served through   *)
(* the routes InitRoutes registers for them: the context of a request      *)
(* carries the parameters the route pattern declares, and no others.       *)
(***************************************************************************)
\* ExamController.GetExam
GetExam(c, d, s) ==
    LET id == Atoi(Param(c, "id"))
        rows == {r \in d["exams"] : r.id = id.n}
    IN  IF id.err THEN Result(400, d, s, NoOut)
        ELSE IF rows = {} THEN Result(404, d, s, NoOut)
        ELSE Result(200, d, s, [exam |-> CHOOSE r \in rows : TRUE])

\* the names a handler passes to c.Param
ParamsRead ==
    "ExamController.GetExam" :> {"id"} @@
    "ExamController.UpdateExam" :> {"id"} @@
    "ExamController.DeleteExam" :> {"id"} @@
    "StudentCourseController.SubmitExamAnswers" :> {"studentId", "courseId"}

ByKeyRoutes == {r \in RouteTable : r.handler \in DOMAIN ParamsRead}

\* well-formed bodies for the by-key handlers
ByKeyBodies(handler) ==
    CASE handler = "ExamController.UpdateExam" -> {[course_id |-> 1]}
      [] handler = "StudentCourseController.SubmitExamAnswers" ->
            {[bindOK |-> TRUE,
              answers |-> AnswerList(AnswersRequired, AnswersRequired, 1, 1)],
             [bindOK |-> TRUE, answers |-> AnswerList(AnswersRequired, 0, 2, 2)]}
      [] OTHER -> {NoBody}

HandleByKey(handler, c, d, s, t) ==
    CASE handler = "ExamController.GetExam" -> GetExam(c, d, s)
      [] handler = "ExamController.UpdateExam" -> Run(UpdateExam, c, d, s, t)
      [] handler = "ExamController.DeleteExam" -> Run(DeleteExam, c, d, s, t)
      [] handler = "StudentCourseController.SubmitExamAnswers" ->
            SubmitExamAnswers(c, d, s, t, "none")

\* a client logs in (POST /teachers/login, registered before the group's
\* Use)
RouteLogin ==
    /\ last = NoRequest
    /\ \E b \in [bindOK : {TRUE}, Identifier : {"a@x"}, Password : Passwords,
                  Role : Roles] :
        LET c == [params |-> NoParams, body |-> b]
            res == GenerateToken(c, db, seq, now)
        IN  /\ issued' = Remember(issued, res)
            /\ last' = [op |-> "GenerateToken",
                        route |-> Route(381, "POST", "/teachers", <<Lit("login")>>,
                                        "GenerateToken"),
                        protected |-> FALSE, hdr |-> NoHeader, params |-> c.params,
                        body |-> b, status |-> res.status, ran |-> TRUE,
                        out |-> res.out]
    /\ UNCHANGED <<now, db, seq, inflight, served>>

\* a request to a by-key route runs the route's chain
ByKeyRequest ==
    /\ last = NoRequest
    /\ \E r \in ByKeyRoutes, h \in Headers :
        \E ps \in [RouteParams(r) -> ParamStrings], b \in ByKeyBodies(r.handler) :
            LET c == [params |-> ps, body |-> b]
                mw == IF Protected(r) THEN AuthMiddleware(h, now)
                      ELSE [status |-> 0, abort |-> FALSE]
                res == IF mw.abort THEN Result(mw.status, db, seq, NoOut)
                       ELSE HandleByKey(r.handler, c, db, seq, now)
            IN  /\ db' = res.db
                /\ seq' = res.seq
                /\ last' = [op |-> r.handler, route |-> r,
                            protected |-> Protected(r), hdr |-> h,
                            params |-> c.params, body |-> b,
                            status |-> res.status, ran |-> ~mw.abort,
                            out |-> res.out]
    /\ UNCHANGED <<now, issued, inflight, served>>

\* a teacher and a student who can log in, a course with its exam and the
\* student's enrollment
InitByKey ==
    /\ now = 1
    /\ db = [EmptyDB EXCEPT
                !["teachers"] = {User(1, "ua", "a@x", HashPassword("p1"))},
                !["students"] = {User(1, "ub", "a@x", HashPassword("p2"))},
                !["categories"] = {[id |-> 1, name |-> "math"]},
                !["courses"] = {[id |-> 1, teacher_id |-> 1, category_id |-> 1]},
                !["exams"] = {[id |-> 1, course_id |-> 1]},
                !["exam_quizzes"] = {ExamQuizz(1, 1, 1), ExamQuizz(2, 1, 2)},
                !["student_courses"] =
                    {StudentCourse(1, 1, "", 0, NullString, FALSE)}]
    /\ seq = [NewSeq EXCEPT !["teachers"] = 2, !["students"] = 2,
                            !["categories"] = 2, !["courses"] = 2,
                            !["exams"] = 2, !["exam_quizzes"] = 3]
    /\ issued = NoToken
    /\ last = NoRequest
    /\ inflight = Idle
    /\ served = 0

NextByKey == RouteLogin \/ ByKeyRequest \/ Respond \/ Second

SpecByKey == InitByKey /\ [][NextByKey]_vars

(***************************************************************************)
(* Properties of the auth component and the router (SpecAuth).             *)
(***************************************************************************)
Accepted(h, t) == ~HeaderIsEmpty(h) /\ ~ValidateToken(h, t).err
Expiry(tok) == UnmarshalClaims(tok.claims).ExpiresAt
Arrives == last = NoRequest /\ last' # NoRequest

\* C1: on every route registered behind AuthMiddleware, a request whose
\* Authorization header is empty or carries a token ValidateToken rejects
\* is answered 401, its handler does not run, and the store, the sequences
\* and the client's token stay as they were; the handler runs only for an
\* accepted header.
C1_ProtectedRoutesGated ==
    [][ (Arrives /\ last'.protected) =>
            /\ last'.ran => Accepted(last'.hdr, now)
            /\ ~Accepted(last'.hdr, now) =>
                    /\ last'.status = 401
                    /\ ~last'.ran
                    /\ db' = db /\ seq' = seq /\ issued' = issued ]_vars

\* a protected, state-changing route was asked with a token signed by
\* another key and answered 401 without running
C1_Witness ==
    /\ last.op = "CategoryController.CreateCategory"
    /\ last.protected
    /\ last.body = [bindOK |-> TRUE, Name |-> "math"]
    /\ last.hdr.scheme = "Bearer " /\ last.hdr.rest.segments = 3
    /\ last.hdr.rest.sig.key = OtherKey
    /\ last.status = 401 /\ ~last.ran
    /\ db["categories"] = {}

\* the rows of the requested role's table the identifier names
Named(body) ==
    {u \in db[IF body.Role = "teacher" THEN "teachers" ELSE "students"] :
        u.email = body.Identifier \/ u.username = body.Identifier}

\* C5: GenerateToken answers 200 with a token only when the table of the
\* requested role holds a record whose email or username is the identifier
\* and whose stored password CheckPassword accepts; when no record is named
\* or the password is not accepted it answers 401 without a token.
C5_LoginNeedsCredentials ==
    (last.op = "GenerateToken" /\ last.body.bindOK) =>
        /\ (last.status = 200 \/ last.out.token # NoToken) =>
                /\ last.body.Role \in Roles
                /\ \E u \in Named(last.body) : CheckPassword(u, last.body.Password)
                /\ last.status = 200 /\ last.out.token # NoToken
                /\ last.out.token.segments = 3
        /\ (/\ last.body.Role \in Roles
            /\ \A u \in Named(last.body) : ~CheckPassword(u, last.body.Password)) =>
                /\ last.status = 401
                /\ last.out.token = NoToken

\* a teacher logged in by email with the right password and got a token
C5_Witness ==
    /\ last.op = "GenerateToken"
    /\ last.body = [bindOK |-> TRUE, Identifier |-> "a@x", Password |-> "p1",
                    Role |-> "teacher"]
    /\ last.status = 200
    /\ last.out.token # NoToken
    /\ issued = last.out.token

\* C6: a login request whose role is neither "teacher" nor "student" is
\* answered 400 before any table is searched, and no token is issued.
C6_InvalidRoleRejected ==
    [][ (/\ Arrives
         /\ last'.op = "GenerateToken"
         /\ last'.body.bindOK
         /\ last'.body.Role \notin {"teacher", "student"}) =>
            /\ last'.status = 400
            /\ last'.out.lookups = {}
            /\ last'.out.token = NoToken
            /\ issued' = issued ]_vars

\* role "admin" with the credentials of an existing teacher: 400
C6_Witness ==
    /\ last.op = "GenerateToken"
    /\ last.body = [bindOK |-> TRUE, Identifier |-> "ua", Password |-> "p1",
                    Role |-> "admin"]
    /\ User(1, "ua", "a@x", HashPassword("p1")) \in db["teachers"]
    /\ last.status = 400

\* tokens that are not signed with the server key: signed with another
\* key, unsigned, or a server token whose claims were altered afterwards
NotServerSigned(email, username, role, t) ==
    {SignedString("HS256", JWTClaim(username, email, role, t + TokenTTL), OtherKey),
     SignedString("none", JWTClaim(username, email, role, t + TokenTTL), ""),
     AlteredClaims(GenerateJWT(email, username, role, t))}

\* C7: for every email, username and role, the token GenerateJWT returns at
\* the current time is accepted by ValidateToken at every time up to its
\* expiry, with or without the "Bearer " prefix, and the claims returned
\* are exactly that email, username and role; a token not signed with the
\* server key is rejected (the clock is all these depend on: they are
\* evaluated whenever the server is idle); and the token a client got from
\* a login opens protected routes until it expires, while a request with a
\* token signed by another key is answered 401.
C7_TokenRoundTrip ==
    /\ last = NoRequest =>
        \A email \in Emails, username \in Usernames, role \in RoleInputs :
          /\ \A scheme \in {"Bearer ", ""}, d \in {0, 1, TokenTTL} :
                LET v == ValidateToken(
                            Header(scheme, GenerateJWT(email, username, role, now)),
                            now + d)
                IN  /\ ~v.err
                    /\ v.claims.Email = email
                    /\ v.claims.Username = username
                    /\ v.claims.Role = role
          /\ \A tok \in NotServerSigned(email, username, role, now) :
                ValidateToken(Header("Bearer ", tok), now).err
    /\ (/\ last.protected
        /\ issued # NoToken
        /\ last.hdr \in {Header("Bearer ", issued), Header("", issued)}
        /\ last.at <= Expiry(issued)) => last.ran
    /\ (/\ last.protected
        /\ last.hdr.rest.segments = 3
        /\ last.hdr.rest.sig.key # jwtKey) => (~last.ran /\ last.status = 401)

\* the token of a login is presented at the second it expires and the
\* protected handler runs
C7_Witness ==
    /\ issued # NoToken
    /\ last.protected
    /\ last.hdr = Header("Bearer ", issued)
    /\ last.at = Expiry(issued)
    /\ last.ran

\* C8: the token of a login at time t expires at t + 1000 hours;
\* ValidateToken rejects every token whose expiry lies before the current
\* time, whoever signed it; no protected handler runs on a request whose
\* token has expired.
C8_TokensExpire ==
    /\ (last.op = "GenerateToken" /\ last.status = 200) =>
            Expiry(last.out.token) = last.at + 1000 * 60 * 60
    /\ \A h \in Headers :
            Expiry(h.rest) < now => ValidateToken(h, now).err
    /\ (last.protected /\ last.ran) => ~(Expiry(last.hdr.rest) < last.at)

\* the token of a login is presented one second after it expired: 401
C8_Witness ==
    /\ issued # NoToken
    /\ last.protected
    /\ last.hdr = Header("Bearer ", issued)
    /\ last.at = Expiry(issued) + 1
    /\ last.status = 401 /\ ~last.ran

\* the header h with its token issued anew by the server for the same
\* account and expiry and the given role
WithRole(h, role, t) ==
    Header(h.scheme,
           SignedString("HS256", [ValidateToken(h, t).claims EXCEPT !.Role = role],
                        jwtKey))

\* C27: when a request with an accepted token is served on a protected
\* route, the same request with the token's role replaced by either role is
\* admitted as well (AuthMiddleware decides the same), the handler runs, and
\* the store the request leaves is the handler's result on the request's
\* context and the store before, in which the token has no part.
C27_RoleBlind ==
    [][ (Arrives /\ last'.protected /\ Accepted(last'.hdr, now)) =>
            /\ \A role \in Roles :
                    /\ Accepted(WithRole(last'.hdr, role, now), now)
                    /\ AuthMiddleware(WithRole(last'.hdr, role, now), now)
                            = AuthMiddleware(last'.hdr, now)
            /\ last'.ran
            /\ \E dbErr \in BOOLEAN :
                    LET res == Handle(last'.op, [params |-> NoParams, body |-> last'.body],
                                      db, seq, now, dbErr)
                    IN  db' = res.db /\ seq' = res.seq /\ last'.status = res.status
       ]_vars

\* a request carrying a student's token was admitted to a protected
\* category route and changed the store
C27_Witness ==
    /\ last.protected
    /\ last.ran
    /\ last.changed
    /\ Accepted(last.hdr, now)
    /\ ValidateToken(last.hdr, now).claims.Role = "student"

(***************************************************************************)
(* Properties of exam grading (SpecExam).                                  *)
(***************************************************************************)
Submitted == last # NoRequest /\ last.op = "SubmitExamAnswers"

\* C2: SubmitExamAnswers is all-or-nothing: it answers 200, 400, 404 or
\* 500; whenever it answers with an error the whole store (the enrollment
\* row and every other row) and the sequences are exactly as before the
\* request; the store changes only in a request that was answered 200, and
\* such a request had neither a failing lookup, nor a failing update, nor a
\* failing commit.
C2_SubmitAllOrNothing ==
    [][ (Arrives /\ last'.op = "SubmitExamAnswers") =>
            /\ last'.status \in {200, 400, 404, 500}
            /\ last'.status # 200 => (db' = db /\ seq' = seq)
            /\ db' # db => last'.status = 200
            /\ last'.status = 200 => last'.fail = "none" ]_vars

\* a passing submission of the enrolled student whose commit failed: 500,
\* and the enrollment is as it was at the start
C2_Witness ==
    /\ Submitted
    /\ last.params = [studentId |-> "1", courseId |-> "1"]
    /\ last.body = [bindOK |-> TRUE, answers |-> AnswerList(20, 20, 1, 1)]
    /\ last.fail = "commit"
    /\ last.status = 500
    /\ db["student_courses"] = {StudentCourse(1, 1, "", 0, NullString, FALSE)}

\* the grade strings of 0 to 20 correct answers
GradeStrings ==
    <<"0/20", "1/20", "2/20", "3/20", "4/20", "5/20", "6/20", "7/20", "8/20",
      "9/20", "10/20", "11/20", "12/20", "13/20", "14/20", "15/20", "16/20",
      "17/20", "18/20", "19/20", "20/20">>

QuizExists(q) == \E r \in db["exam_quizzes"] : r.id = q
\* the submitted answers that equal the stored answer of the quiz they name
CorrectEntries(answers) ==
    {i \in DOMAIN answers :
        \E r \in db["exam_quizzes"] :
            r.id = answers[i].QuizzID /\ r.answer = answers[i].Answer}
AllQuizzesExist(answers) == \A i \in DOMAIN answers : QuizExists(answers[i].QuizzID)

\* C3: a submission of 20 answers that all name existing exam quizzes, with
\* ids that parse and no database failure, is answered 200; every 200
\* response reports the grade "n/20", n being the number of submitted
\* answers equal to the stored answer of the quiz they name, and reports
\* passed = TRUE exactly when n >= 10.
C3_GradeIsCorrectCount ==
    Submitted =>
        /\ (/\ ~ParseUint(last.params.studentId).err
            /\ ~ParseUint(last.params.courseId).err
            /\ last.body.bindOK
            /\ Len(last.body.answers) = 20
            /\ AllQuizzesExist(last.body.answers)
            /\ last.fail = "none") => last.status = 200
        /\ last.status = 200 =>
            LET n == Cardinality(CorrectEntries(last.body.answers))
            IN  /\ Len(last.body.answers) = 20
                /\ AllQuizzesExist(last.body.answers)
                /\ last.out.grade = GradeStrings[n + 1]
                /\ last.out.passed = (n >= 10)

\* exactly ten of the twenty answers are right: "10/20", passed
C3_Witness ==
    /\ Submitted
    /\ last.body = [bindOK |-> TRUE, answers |-> AnswerList(20, 10, 1, 2)]
    /\ last.status = 200
    /\ last.out.grade = "10/20"
    /\ last.out.passed

\* the enrollment rows of the pair a submission names
EnrollmentOf(params) ==
    {r \in db["student_courses"] :
        /\ r.student_id = ParseUint(params.studentId).n
        /\ r.course_id = ParseUint(params.courseId).n}

\* C4: after a committed SubmitExamAnswers the enrollment of the pair has
\* issued = TRUE and a non-null certificate if the score is at least 10 of
\* 20, and issued = FALSE and a null certificate otherwise; the response's
\* certificate_issued equals passed, and it has a certificate field only
\* when passed.
C4_CertificateIffPassed ==
    (Submitted /\ last.status = 200) =>
        LET n == Cardinality(CorrectEntries(last.body.answers))
        IN  /\ \E r \in EnrollmentOf(last.params) :
                    /\ r.issued = (n >= 10)
                    /\ r.certificate.valid = (n >= 10)
            /\ last.out.certificate_issued = last.out.passed
            /\ ("certificate" \in DOMAIN last.out) = last.out.passed

\* C4, for the pairs that are enrolled: the stored flag and certificate and
\* the response agree with the score
C4_EnrolledCertificateIffPassed ==
    (Submitted /\ last.status = 200) =>
        LET n == Cardinality(CorrectEntries(last.body.answers))
        IN  /\ \A r \in EnrollmentOf(last.params) :
                    /\ r.issued = (n >= 10)
                    /\ r.certificate.valid = (n >= 10)
            /\ last.out.certificate_issued = last.out.passed
            /\ ("certificate" \in DOMAIN last.out) = last.out.passed

\* C15: a SubmitExamAnswers whose body binds to a list of any length other
\* than 20 is answered 400 whatever the transaction, the lookups or the
\* update would have done (no transaction is begun and no stored answer is
\* read), and it changes no enrollment and no other row.
C15_ExactlyTwentyAnswers ==
    [][ (/\ Arrives
         /\ last'.op = "SubmitExamAnswers"
         /\ last'.body.bindOK
         /\ Len(last'.body.answers) # 20) =>
            /\ last'.status = 400
            /\ db' = db /\ seq' = seq ]_vars

\* 21 answers naming a quiz that does not exist, on a connection whose
\* lookups would fail: 400
C15_Witness ==
    /\ Submitted
    /\ last.body.bindOK
    /\ Len(last.body.answers) = 21
    /\ last.body.answers[1].QuizzID = 3
    /\ last.fail = "query"
    /\ ~ParseUint(last.params.studentId).err
    /\ ~ParseUint(last.params.courseId).err
    /\ last.status = 400

\* C21: a 200 answer of SubmitExamAnswers implies that an enrollment of the
\* pair (studentId, courseId) exists and holds the grade and the certificate
\* state the response reports; a submission for a pair with no enrollment is
\* not answered 200.
C21_SuccessMeansEnrolled ==
    (Submitted /\ last.status = 200) =>
        \E r \in EnrollmentOf(last.params) :
            /\ r.grade = last.out.grade
            /\ r.issued = last.out.certificate_issued
            /\ r.certificate.valid = ("certificate" \in DOMAIN last.out)

\* the quizzes of the exam of the course a submission names that some
\* submitted answer answers correctly
CorrectQuizzesOfCourse(params, answers) ==
    {q \in db["exam_quizzes"] :
        /\ \E e \in db["exams"] :
                e.id = q.exam_id /\ e.course_id = ParseUint(params.courseId).n
        /\ \E i \in DOMAIN answers :
                answers[i].QuizzID = q.id /\ answers[i].Answer = q.answer}

\* C22: the number of correct answers a 200 answer of SubmitExamAnswers
\* reports is at most the number of distinct quizzes of the course's exam
\* that were answered correctly: repeating a quiz id or naming quizzes of
\* another exam does not raise the score.
C22_EachQuestionGradedOnce ==
    (Submitted /\ last.status = 200) =>
        \A n \in 0..20 :
            last.out.grade = GradeStrings[n + 1] =>
                n <= Cardinality(CorrectQuizzesOfCourse(last.params, last.body.answers))

\* C23: a SubmitExamAnswers answered 200 changes only the grade, the
\* certificate and the issued flag of the enrollment (studentId, courseId):
\* the enrollment date of that row, every other enrollment and every other
\* table are as before the request.
C23_SubmitFrame ==
    [][ (Arrives /\ last'.op = "SubmitExamAnswers" /\ last'.status = 200) =>
            LET sid == ParseUint(last'.params.studentId).n
                cid == ParseUint(last'.params.courseId).n
                Pair(r) == r.student_id = sid /\ r.course_id = cid
            IN  /\ \A t \in Tables \ {"student_courses"} : db'[t] = db[t]
                /\ seq' = seq
                /\ {r \in db'["student_courses"] : ~Pair(r)}
                        = {r \in db["student_courses"] : ~Pair(r)}
                /\ {r.enrollment : r \in {x \in db'["student_courses"] : Pair(x)}}
                        = {r.enrollment : r \in {x \in db["student_courses"] : Pair(x)}}
       ]_vars

(***************************************************************************)
(* Properties of the store and the entity controllers (SpecStore).         *)
(***************************************************************************)
\* C9: every create and update request with a foreign key that names no
\* row is answered 404, and nothing is written by it.
C9_MissingParentIs404 ==
    [][ (last' # last /\ last'.kind \in {"create", "update"} /\ last'.missing) =>
            /\ last'.status = 404
            /\ db' = db /\ seq' = seq ]_vars

Enrolled(d, body) ==
    {r \in d["student_courses"] :
        r.student_id = body.student_id /\ r.course_id = body.course_id}

\* C13: in every reachable state there is at most one enrollment per
\* (student, course) pair, and a CreateStudentCourse for a pair that is
\* already enrolled is answered with an error and leaves every stored row,
\* the existing enrollment with its grade, date, certificate and issued flag
\* included, as it was.
C13_OneEnrollmentPerPair ==
    /\ [](\A r1 \in db["student_courses"], r2 \in db["student_courses"] :
            (r1.student_id = r2.student_id /\ r1.course_id = r2.course_id)
                => r1 = r2)
    /\ [][ (/\ served' # served
            /\ last'.op = "CreateStudentCourse"
            /\ Enrolled(db, last'.c.body) # {}) =>
                /\ last'.status >= 400
                /\ db' = db ]_vars

\* a second enrollment of the pair, with another grade, was refused
C13_Witness ==
    /\ last.op = "CreateStudentCourse"
    /\ last.status = 500
    /\ last.c.body.grade = "A"
    /\ \E r \in Enrolled(db, last.c.body) : r.grade = ""

\* the rows of a table whose column names one of the given rows
Children(d, table, col, parents) ==
    {r \in d[table] : \E p \in parents : r[col] = p.id}

\* C12: a DeleteCourse that answers 200 removes the course, its exam and
\* that exam's quizzes, its articles, videos, course quizzes and ratings,
\* and its questions with their answers, and leaves every other row as it
\* was.
C12_DeleteCourseCascades ==
    [][ (served' # served /\ last'.op = "DeleteCourse" /\ last'.status = 200) =>
            LET course == {r \in db["courses"] : r.id = Atoi(last'.c.params.id).n}
                exams == Children(db, "exams", "course_id", course)
                questions == Children(db, "questions", "course_id", course)
                gone == [t \in Tables |->
                    CASE t = "courses" -> course
                      [] t = "exams" -> exams
                      [] t = "exam_quizzes" -> Children(db, t, "exam_id", exams)
                      [] t = "questions" -> questions
                      [] t = "answers" -> Children(db, t, "question_id", questions)
                      [] t \in {"articles", "videos", "course_quizzes", "cratings"} ->
                            Children(db, t, "course_id", course)
                      [] OTHER -> {}]
            IN  /\ course # {}
                /\ \A t \in Tables : db'[t] = db[t] \ gone[t] ]_vars

\* a course with an exam and a quiz of that exam was deleted: the quiz went
\* with it
C12_Witness ==
    /\ last.op = "DeleteCourse"
    /\ last.status = 200
    /\ seq["exam_quizzes"] = 2
    /\ db["exam_quizzes"] = {}
    /\ db["exams"] = {}

(***************************************************************************)
(* Properties of the account controllers (SpecAccount).                    *)
(***************************************************************************)
\* the step answers a request of the account controllers
Answers ==
    \/ Len(inflight') < Len(inflight)
    \/ served' > served /\ inflight' = inflight

\* C11: in every reachable state no two teacher rows share a username and
\* no two teacher rows share an email, whatever CreateTeacher and
\* UpdateTeacher requests ran and however their checks and writes
\* interleaved.
C11_TeachersUnique ==
    \A r1 \in db["teachers"], r2 \in db["teachers"] :
        r1 # r2 => (r1.id # r2.id /\ r1.username # r2.username /\ r1.email # r2.email)

\* two CreateTeacher requests passed checkUniqueness before either wrote;
\* the second insert was refused by the table's UNIQUE constraint
C11_Witness ==
    /\ last.op = "CreateTeacher"
    /\ last.status = 500
    /\ last.c.body.teacher.ID = 0
    /\ inflight = <<>>
    /\ Cardinality(db["teachers"]) = 2

\* C18: every successful answer of CreateTeacher, GetTeacher, GetAllTeachers
\* and UpdateTeacher carries an empty Password in every teacher it returns,
\* whatever password is stored or was submitted.
C18_NoPasswordDisclosed ==
    (last.op \in {"CreateTeacher", "GetTeacher", "GetAllTeachers", "UpdateTeacher"}
        /\ last.status \in {200, 201}) =>
        IF last.op = "GetAllTeachers"
        THEN \A teacher \in last.out.teachers : teacher.Password = ""
        ELSE last.out.teacher.Password = ""

\* GetAllTeachers answers while a teacher's stored password is the text
\* UpdateTeacher was given
C18_Witness ==
    /\ last.op = "GetAllTeachers"
    /\ last.status = 200
    /\ \E r \in db["teachers"] : ~r.password.bcrypt /\ r.password.of = "p2"
    /\ \E teacher \in last.out.teachers : teacher.Password = ""

\* C19: a CreateTeacher request whose body binds with an empty password is
\* answered 400 and creates no teacher row, whatever else the body carries.
C19_PasswordRequired ==
    [][ (/\ Answers
         /\ last'.op = "CreateTeacher"
         /\ last'.c.body.bindOK
         /\ last'.c.body.teacher.Password = "") =>
            /\ last'.status = 400
            /\ db'["teachers"] = db["teachers"] ]_vars

\* the login an account's owner makes after a request gave it a password
LoginWith(identifier, password, role) ==
    [params |-> NoParams,
     body |-> [bindOK |-> TRUE, Identifier |-> identifier,
               Password |-> password, Role |-> role]]

\* the request carried a non-empty password for an account the store holds
\* after it
GavePassword(answer, d) ==
    /\ answer.status \in {200, 201}
    /\ answer.c.body.bindOK
    /\ IF answer.op \in {"CreateTeacher", "UpdateTeacher"}
       THEN /\ answer.c.body.teacher.Password # ""
            /\ \E r \in d["teachers"] : r.email = answer.c.body.teacher.email
       ELSE /\ answer.c.body.student.Password # ""
            /\ \E r \in d["students"] : r.email = answer.c.body.student.email

\* C20: after a successful CreateTeacher, UpdateTeacher, CreateStudent or
\* UpdateStudent that carried a non-empty password, GenerateToken with the
\* account's email, its role and that password answers 200.
C20_StoredPasswordLogsIn ==
    [][ (/\ Answers
         /\ last'.op \in {"CreateTeacher", "UpdateTeacher",
                          "CreateStudent", "UpdateStudent"}
         /\ GavePassword(last', db')) =>
            IF last'.op \in {"CreateTeacher", "UpdateTeacher"}
            THEN GenerateToken(LoginWith(last'.c.body.teacher.email,
                                         last'.c.body.teacher.Password, "teacher"),
                               db', seq', now').status = 200
            ELSE GenerateToken(LoginWith(last'.c.body.student.email,
                                         last'.c.body.student.Password, "student"),
                               db', seq', now').status = 200 ]_vars

(***************************************************************************)
(* Properties of updates and deletes by key (SpecKeys).                    *)
(***************************************************************************)
\* C14: in every reachable state no two exam rows have the same course_id,
\* and a CreateExam or UpdateExam that names the course of another exam is
\* answered with an error and changes no row.
C14_OneExamPerCourse ==
    /\ [](\A e1 \in db["exams"], e2 \in db["exams"] :
            e1.course_id = e2.course_id => e1 = e2)
    /\ [][ (/\ served' # served
            /\ last'.op \in {"CreateExam", "UpdateExam"}
            /\ \E e \in db["exams"] :
                    /\ e.course_id = last'.c.body.course_id
                    /\ last'.op = "UpdateExam" =>
                            e.id # Atoi(Param(last'.c, "id")).n) =>
                /\ last'.status >= 400
                /\ db' = db ]_vars

\* an UpdateExam that moves an exam to the course of another exam was
\* refused
C14_Witness ==
    /\ last.op = "UpdateExam"
    /\ last.status = 500
    /\ \E e \in db["exams"] : e.id = Atoi(Param(last.c, "id")).n
    /\ \E e \in db["exams"] :
            e.course_id = last.c.body.course_id /\ e.id # Atoi(Param(last.c, "id")).n

\* the table an update or delete handler keys into
KeyedTable ==
    [h \in {x.name : x \in KeyedHandlers} |->
        (CHOOSE x \in KeyedHandlers : x.name = h).table]
    @@ [op \in {"UpdateCategory", "DeleteCategory"} |-> "categories"]
    @@ [op \in {"UpdateTeacher"} |-> "teachers"]
    @@ [op \in {"UpdateStudentCourse", "DeleteStudentCourse"} |-> "student_courses"]

\* the rows the key of the request matches
KeyRows(d, r) ==
    IF KeyedTable[r.op] = "student_courses"
    THEN {x \in d["student_courses"] :
            /\ x.student_id = ParseUint(Param(r.c, "studentId")).n
            /\ x.course_id = ParseUint(Param(r.c, "courseId")).n}
    ELSE {x \in d[KeyedTable[r.op]] : x.id = Atoi(Param(r.c, "id")).n}

\* the request passes everything the handler does before its write
\* statement: the path parameters parse, the body binds and validates, and
\* the lookups that precede the write succeed
ReachesWrite(d, r) ==
    CASE r.op \in {"UpdateCategory"} ->
            ~Atoi(Param(r.c, "id")).err /\ r.c.body.bindOK /\ r.c.body.Name # ""
      [] r.op = "DeleteCategory" -> ~Atoi(Param(r.c, "id")).err
      [] r.op = "UpdateTeacher" ->
            /\ UpdateTeacherChecks(r.c, d) = 0
            /\ r.c.body.teacher.Password # ""
      [] r.op = "UpdateStudentCourse" ->
            /\ ~ParseUint(Param(r.c, "studentId")).err
            /\ ~ParseUint(Param(r.c, "courseId")).err
            /\ r.c.body.bindOK
      [] r.op = "DeleteStudentCourse" ->
            /\ ~ParseUint(Param(r.c, "studentId")).err
            /\ ~ParseUint(Param(r.c, "courseId")).err
      [] OTHER ->
            LET h == CHOOSE x \in KeyedHandlers : x.name = r.op
            IN  ~Invalid(h, r.c) /\ ~CheckFails(h, r.c, d)

\* C16: an update or delete of an exam, exam quiz, category, subcategory,
\* course, teacher, question or enrollment that reaches its write statement
\* with a key matching no row is answered 404 and leaves the store as it
\* was.
C16_MissingKeyIs404 ==
    [][ (/\ served' # served
         /\ last'.kind \in {"update", "delete"}
         /\ KeyedTable[last'.op] \in
                {"exams", "exam_quizzes", "categories", "sub_cats", "courses",
                 "teachers", "questions", "student_courses"}
         /\ ReachesWrite(db, last')
         /\ KeyRows(db, last') = {}) =>
            /\ last'.status = 404
            /\ db' = db /\ seq' = seq ]_vars

\* an UpdateExam with a valid body and an existing course named an exam id
\* that matches no row
C16_Witness ==
    /\ last.op = "UpdateExam"
    /\ last.status = 404
    /\ \E r \in db["courses"] : r.id = last.c.body.course_id
    /\ KeyRows(db, last) = {}

\* C17: UpdateAnswer and DeleteAnswer answer 404 when no answer row has the
\* given id, and answer 200 only when an answer row was updated or deleted.
C17_AnswerNotFoundIs404 ==
    [][ (served' # served /\ last'.op \in {"UpdateAnswer", "DeleteAnswer"}) =>
            /\ (ReachesWrite(db, last') /\ KeyRows(db, last') = {}) =>
                    last'.status = 404
            /\ last'.status = 200 => KeyRows(db, last') # {} ]_vars

(***************************************************************************)
(* Properties of enrollments under concurrent requests (SpecEnroll).       *)
(***************************************************************************)
TripleOf(r) == <<r.grade, r.certificate, r.issued>>

\* the enrollment an answered request wrote to, and the grade, certificate
\* and issued flag it wrote
WrittenPair(answer) ==
    IF answer.op = "CreateStudentCourse"
    THEN <<answer.c.body.student_id, answer.c.body.course_id>>
    ELSE PairOf(answer.c)
WrittenTriple(answer) ==
    CASE answer.op = "SubmitExamAnswers" ->
            <<answer.out.grade,
              IF "certificate" \in DOMAIN answer.out
              THEN StringPtr(answer.out.certificate) ELSE NullString,
              answer.out.certificate_issued>>
      [] answer.op = "UpdateStudentCourse" ->
            <<JSONField(answer.c.body, "grade", ""),
              JSONField(answer.c.body, "certificate", NullString),
              JSONField(answer.c.body, "issued", FALSE)>>
      [] answer.op = "CreateStudentCourse" ->
            <<answer.c.body.grade,
              JSONField(answer.c.body, "certificate", NullString), FALSE>>

\* C24: however SubmitExamAnswers transactions and UpdateStudentCourse (and
\* CreateStudentCourse) statements interleave, every step that changes an
\* enrollment row is the write of one request that is answered with success
\* in that step, and the row's grade, certificate and issued flag are
\* together the three values of that request: the stored triple is never a
\* mixture of two requests' fields.
C24_TripleFromOneRequest ==
    [][ \A r \in db'["student_courses"] \ db["student_courses"] :
            /\ last'.op \in {"SubmitExamAnswers", "UpdateStudentCourse",
                             "CreateStudentCourse"}
            /\ last'.status \in {200, 201}
            /\ <<r.student_id, r.course_id>> = WrittenPair(last')
            /\ TripleOf(r) = WrittenTriple(last') ]_vars

\* UpdateStudentCourse wrote the enrollment (1, 1) between the grading and
\* the UPDATE of a SubmitExamAnswers transaction for the same enrollment
C24_Witness ==
    /\ last.op = "UpdateStudentCourse"
    /\ last.status = 200
    /\ PairOf(last.c) = <<1, 1>>
    /\ \E i \in DOMAIN inflight :
            inflight[i].pc = "graded" /\ PairOf(inflight[i].c) = <<1, 1>>
    /\ \E r \in db["student_courses"] :
            /\ <<r.student_id, r.course_id>> = <<1, 1>>
            /\ TripleOf(r) = WrittenTriple(last)

\* C25: in every reachable state every enrollment has a non-null
\* certificate exactly when its issued flag is true.
C25_CertificateIffIssued ==
    \A r \in db["student_courses"] : r.certificate.valid = r.issued

(***************************************************************************)
(* Properties of the by-key routes (SpecByKey).                            *)
(***************************************************************************)
\* C26: a request with an accepted token and a well-formed body to
\* POST /exams/get, PUT /exams/updateExam, DELETE /exams/DeleteExam or
\* POST /student_courses/SubmitExamAnswers finds the path parameters its
\* handler reads declared by the route pattern, and is not turned away
\* with 400 by the handler's parameter parsing.
C26_ByKeyRoutesBindParams ==
    (last.op \in DOMAIN ParamsRead /\ last.ran) =>
        /\ ParamsRead[last.op] \subseteq RouteParams(last.route)
        /\ last.status # 400

=============================================================================
